---- MODULE Spec2Model ----
(***************************************************************************)
(* Application Submission Orchestrator of Jobbot-NO (worker/auto_apply.py  *)
(* and worker/register_site.py): credential store, confirmation gateway,   *)
(* automation tasks and the dispatcher, as state machines.                 *)
(*                                                                         *)
(* The module holds several specifications over one set of variables.      *)
(* Each specification drives one group of variables and leaves the other   *)
(* groups parked at their initial value.                                   *)
(*   SpecCred : the site_credentials table under concurrent pipelines      *)
(*   Spec     : process_application for one Application, with the inbound  *)
(*              handler, the automation service, the registration worker   *)
(*              and worker restarts                                        *)
(*   SpecWait : one human wait (confirmation, payload preview, question)   *)
(*              under a clock                                              *)
(*   SpecTask : one automation task: submission with retries, the polling  *)
(*              loop of monitor_task_status and the final status write     *)
(*   SpecDisp : one cycle of the dispatcher: tenant groups under the       *)
(*              semaphore                                                  *)
(*   SpecReap : the main loop with cleanup_stuck_applications, one         *)
(*              Application row and its other writers, under a clock       *)
(*   SpecReapFair : SpecReap with fair worker loops                        *)
(*   SpecReg  : registration flows: process_registration, the orchestrator *)
(*              side that creates and waits for them, and the bot          *)
(*   SpecRoute: the flow chosen for an Application from its form type,     *)
(*              URLs and credentials                                       *)
(*   SpecRegResend : SpecReg with the user re-queueing an Application      *)
(*              that waits for a registration                              *)
(*   SpecEdit : the payload preview with the user's edits                  *)
(*   SpecPass : the password generated on each path that creates a flow    *)
(*   SpecMask : the step reports of the two task pollers                   *)
(*   SpecPend : the daemon loop of the registration worker                 *)
(*                                                                         *)
(* In Spec the tables hold the rows that can still matter: the worker      *)
(* reads a confirmation, question or task only by the id of a row it       *)
(* created in the same call of process_application, so a row in a final    *)
(* status that no call holds is dropped, and the other parties are         *)
(* followed only on the rows the worker holds.  A row the worker abandoned *)
(* while it was pending or live stays as it was.                           *)
(***************************************************************************)
EXTENDS Integers, Sequences, FiniteSets, TLC

VARIABLES
  store,      \* site_credentials rows
  sess,       \* SpecCred: position of each application pipeline
  lastOp,     \* SpecCred: the store operation performed by the last step
  chat,       \* user_settings.telegram_chat_id of the tenant is set
  kind,       \* the Job's form type / url shape
  appStatus,  \* applications.status
  meta,       \* applications.skyvern_metadata (registration keys)
  confs,      \* application_confirmations rows, in insertion order
  questions,  \* registration_questions rows, in insertion order
  tasks,      \* automation-service tasks, in creation order
  flows,      \* registration_flows rows, in insertion order
  pc,         \* position of the dispatcher process
  loc,        \* local variables of process_application
  crashes,    \* number of worker restarts so far
  held,       \* history: a restart hit a wait on a delivered, pending request
  now,        \* SpecWait: the clock, in seconds
  tw,         \* SpecWait: the human wait under the clock
  sub,        \* SpecTask: submit_skyvern_task_with_retry, its locals and requests
  polled,     \* SpecTask: the last response of GET /tasks/{id}
  mon,        \* SpecTask: process_application around the task, and the poller
  tapp,       \* SpecTask: the applications row of the task
  sel,        \* SpecDisp: the rows selected in this cycle, in selection order
  pipe,       \* SpecDisp: process_user_applications of each tenant
  permits,    \* SpecDisp: free slots of the semaphore
  astat,      \* SpecDisp: applications.status of each selected row
  disp,       \* SpecDisp: the dispatcher loop and what gather returned
  rnow,       \* SpecReap: the clock (UTC), in minutes
  rapp,       \* SpecReap: the applications row
  reap,       \* SpecReap: the main loop of the worker and its in-flight pipeline
  regFlows,   \* SpecReg: registration_flows, the rows of one Application
  regApp,     \* SpecReg: the linked applications row
  regCred,    \* SpecReg: the domain has an active site_credentials row
  regRun,     \* SpecReg: the run of process_registration
  regOrc,     \* SpecReg: process_application for the linked Application
  rt,         \* SpecRoute: the Application being classified
  prv,        \* SpecEdit: send_payload_preview and the payload it edits
  pwd,        \* SpecPass: the password being generated
  rpt,        \* SpecMask: the step report being forwarded
  pnd         \* SpecPend: the pending flows and the runs started for them

credVars == <<sess, lastOp>>

mainVars == <<chat, kind, appStatus, meta, confs, questions, tasks, flows,
              pc, loc, crashes, held>>

waitVars == <<now, tw>>

taskVars == <<sub, polled, mon, tapp>>

dispVars == <<sel, pipe, permits, astat, disp>>

reapVars == <<rnow, rapp, reap>>

regVars == <<regFlows, regApp, regCred, regRun, regOrc>>

routeVars == <<rt>>

\* the groups of the specifications after SpecDisp
auxVars == <<prv, pwd, rpt, pnd>>

restVars == <<reapVars, regVars, routeVars, auxVars>>

vars == <<store, sess, lastOp, chat, kind, appStatus, meta, confs,
          questions, tasks, flows, pc, loc, crashes, held, now, tw,
          sub, polled, mon, tapp, sel, pipe, permits, astat, disp,
          rnow, rapp, reap, regFlows, regApp, regCred, regRun, regOrc, rt, prv, pwd, rpt,
          pnd>>

(***************************************************************************)
(* site_credentials                                                        *)
(***************************************************************************)

\* Bounds of the credential model
NumCredApps == 2

CredApps == 1..NumCredApps

Domains == {"acme.no"}

UserEmails == {"u1@mail", "u2@mail"}

Secrets == {"pw1", "pw2"}

\* the row mark_site_as_magic_link inserts when the domain has no row
PlaceholderRow(d) ==
  [site |-> d, email |-> "magic_link@placeholder", password |-> "",
   status |-> "inactive", magic |-> TRUE]

ActiveRow(d, e, p) ==
  [site |-> d, email |-> e, password |-> p, status |-> "active", magic |-> FALSE]

NoRow == [site |-> "", email |-> "", password |-> "", status |-> "none", magic |-> FALSE]

\* select ... eq(site_domain).in_(status, [active, inactive]).limit(1):
\* the rows the query may return (no ORDER BY: any matching row), NoRow if none
get_site_credentials(rows, d) ==
  LET m == {r \in rows : r.site = d /\ r.status \in {"active", "inactive"}}
  IN  IF m = {} THEN {NoRow} ELSE m

\* check_credentials_for_url: has_credentials only for an active row
has_active_creds(r) == r # NoRow /\ r.status = "active"

\* select id, status eq(site_domain).limit(1) of mark_site_as_magic_link
MarkFirstRows(rows, d) ==
  LET m == {r \in rows : r.site = d}
  IN  IF m = {} THEN {NoRow} ELSE m

\* mark_site_as_magic_link(domain), given the row its select returned
mark_site_as_magic_link(rows, d, first) ==
  IF first = NoRow
    THEN rows \cup {PlaceholderRow(d)}
    ELSE IF first.status = "active"
      THEN rows
      ELSE {IF r.site = d
              THEN [r EXCEPT !.status = "inactive", !.magic = TRUE]
              ELSE r : r \in rows}

\* upsert(..., on_conflict="site_domain,email") of the user-supplied login
UpsertUserCredentials(rows, d, e, p) ==
  {r \in rows : ~(r.site = d /\ r.email = e)} \cup {ActiveRow(d, e, p)}

\* save_site_credentials: plain insert; a duplicate key raises and nothing is saved
save_site_credentials(rows, d, e, p) ==
  IF \E r \in rows : r.site = d /\ r.email = e
    THEN rows
    ELSE rows \cup {ActiveRow(d, e, p)}

(***************************************************************************)
(* Values of the variables a specification does not drive                  *)
(***************************************************************************)

\* locals of process_application before it runs
\*   cid   confirmation_id of the hybrid / standard confirmation (0: None)
\*   pvid  confirmation_id inside send_payload_preview (0: none)
\*   tid   task being waited for; qid question being waited for
\*   qret  position ask_skyvern_question returns to; ans its return value
\*   email whether the login email was given; left: critical fields to ask
\*   base  history: the confirmations created by this call come after base
Loc0 ==
  [cid |-> 0, pvid |-> 0, tid |-> 0, qid |-> 0, qret |-> "", ans |-> "none",
   email |-> FALSE, left |-> 0, base |-> 0]

\* the human wait of SpecWait while another specification runs
NoWait ==
  [kind |-> "none", created |-> 0, expires |-> 0, start |-> 0, begun |-> 0,
   status |-> "none", result |-> "none", polledAt |-> 0]

WaitParked == now = 0 /\ tw = NoWait

\* submit_skyvern_task_with_retry before it is called
Sub0 ==
  [pc |-> "off", attempt |-> 0, healthy |-> "none", posts |-> <<>>,
   slept |-> <<>>, ret |-> "none"]

\* no response polled
NoResult ==
  [status |-> "none", codes |-> {}, magic |-> FALSE, said |-> "absent",
   reason |-> {}]

\* the task of SpecTask while another specification runs
TaskParked ==
  /\ sub = Sub0 /\ polled = NoResult
  /\ mon = [pc |-> "off", flow |-> "none", task |-> "none", read |-> "none",
            ret |-> "none", cancels |-> 0]
  /\ tapp = [status |-> "draft", reason |-> "none"]

\* the dispatcher cycle of SpecDisp while another specification runs
DispParked ==
  /\ sel = <<>> /\ pipe = <<>> /\ permits = 0 /\ astat = <<>>
  /\ disp = [pc |-> "off", finn_ok |-> FALSE]

\* the main loop of SpecReap while another specification runs
ReapParked ==
  /\ rnow = 0
  /\ rapp = [status |-> "draft", updated_at |-> 0, reason |-> "none"]
  /\ reap = [pc |-> "off", cycle |-> 0, tz |-> 0, hit |-> FALSE,
             inflight |-> "none", fw |-> "idle"]

\* process_registration before it runs.  tasks: tasks submitted in the run;
\* first: result of the first task; res: result of the task monitored;
\* src: where the value of the missing field came from; verif: the
\* verification code wait
NoRun ==
  [pc |-> "idle", flow |-> 0, tasks |-> 0, first |-> "none", res |-> "none",
   src |-> "none", verif |-> "none"]

RegParked ==
  /\ regFlows = <<>>
  /\ regApp = [status |-> "draft", waiting |-> FALSE, flow |-> 0, chat |-> FALSE]
  /\ regCred = FALSE
  /\ regRun = NoRun
  /\ regOrc = [pc |-> "off", flow |-> 0]

\* the classification of SpecRoute while another specification runs
RouteParked == rt = [pc |-> "off"]

\* the specifications after SpecDisp, parked
EditParked == prv = [pc |-> "off"]

PassParked == pwd = [pc |-> "off"]

MaskParked == rpt = [pc |-> "off"]

PendParked == pnd = <<>>

AuxParked == EditParked /\ PassParked /\ MaskParked /\ PendParked

RestParked == ReapParked /\ RegParked /\ RouteParked /\ AuxParked

\* the variables of Spec while another specification runs
MainParked ==
  /\ chat = FALSE /\ kind = "no_url"
  /\ appStatus = "draft" /\ meta = [waiting |-> FALSE, flow |-> 0]
  /\ confs = <<>> /\ questions = <<>> /\ tasks = <<>> /\ flows = <<>>
  /\ pc = "off" /\ loc = Loc0
  /\ crashes = 0 /\ held = FALSE

(***************************************************************************)
(* SpecCred: pipelines that read and write the credential table            *)
(***************************************************************************)

CredStages == {"new", "nocreds", "hascreds", "registering", "done"}

InitCred ==
  /\ store = {}
  /\ MainParked
  /\ WaitParked
  /\ TaskParked
  /\ DispParked
  /\ RestParked
  /\ sess = [a \in CredApps |-> [stage |-> "new", site |-> "acme.no"]]
  /\ lastOp = "init"

\* process_application: check_credentials_for_url and the magic-link short-circuit
CredCheck(a) ==
  /\ UNCHANGED <<mainVars, waitVars, taskVars, dispVars, restVars>>
  /\ sess[a].stage = "new"
  /\ \E r \in get_site_credentials(store, sess[a].site) :
       sess' = [sess EXCEPT ![a].stage =
                  IF r # NoRow /\ r.magic THEN "done"
                  ELSE IF has_active_creds(r) THEN "hascreds" ELSE "nocreds"]
  /\ lastOp' = "check"
  /\ UNCHANGED store

\* the user answers the account questions: the login is upserted as active
CredUserSave(a) ==
  /\ UNCHANGED <<mainVars, waitVars, taskVars, dispVars, restVars>>
  /\ sess[a].stage = "nocreds"
  /\ \E e \in UserEmails, p \in Secrets :
       store' = UpsertUserCredentials(store, sess[a].site, e, p)
  /\ sess' = [sess EXCEPT ![a].stage = "hascreds"]
  /\ lastOp' = "upsert"

\* no login: trigger_registration starts a RegistrationFlow
CredStartRegistration(a) ==
  /\ UNCHANGED <<mainVars, waitVars, taskVars, dispVars, restVars>>
  /\ sess[a].stage = "nocreds"
  /\ sess' = [sess EXCEPT ![a].stage = "registering"]
  /\ lastOp' = "flow"
  /\ UNCHANGED store

\* process_registration: the registration worker saves the new account and
\* the application is processed again
CredRegistrationSave(a) ==
  /\ UNCHANGED <<mainVars, waitVars, taskVars, dispVars, restVars>>
  /\ sess[a].stage = "registering"
  /\ \E e \in UserEmails, p \in Secrets :
       store' = save_site_credentials(store, sess[a].site, e, p)
  /\ sess' = [sess EXCEPT ![a].stage = "new"]
  /\ lastOp' = "insert"

\* the form-filling task ends magic_link: process_application marks the site
CredTaskMagicLink(a) ==
  /\ UNCHANGED <<mainVars, waitVars, taskVars, dispVars, restVars>>
  /\ sess[a].stage \in {"nocreds", "hascreds"}
  /\ \E first \in MarkFirstRows(store, sess[a].site) :
       store' = mark_site_as_magic_link(store, sess[a].site, first)
  /\ sess' = [sess EXCEPT ![a].stage = "done"]
  /\ lastOp' = "mark"

\* the form-filling task ends with any other result
CredTaskOther(a) ==
  /\ UNCHANGED <<mainVars, waitVars, taskVars, dispVars, restVars>>
  /\ sess[a].stage \in {"nocreds", "hascreds"}
  /\ sess' = [sess EXCEPT ![a].stage = "done"]
  /\ lastOp' = "task"
  /\ UNCHANGED store

NextCred ==
  \/ \E a \in CredApps : CredCheck(a)
  \/ \E a \in CredApps : CredUserSave(a)
  \/ \E a \in CredApps : CredStartRegistration(a)
  \/ \E a \in CredApps : CredRegistrationSave(a)
  \/ \E a \in CredApps : CredTaskMagicLink(a)
  \/ \E a \in CredApps : CredTaskOther(a)

SpecCred == InitCred /\ [][NextCred]_vars

\* C1: mark_site_as_magic_link never changes a row that is active: every
\* row that is active right before a marking is still in the table,
\* unchanged (same email, secret and status), right after it.
C1_ActiveSurvivesMarking ==
  [][lastOp' = "mark" => \A r \in store : r.status = "active" => r \in store']_vars

(***************************************************************************)
(* Spec: process_application for one Application                           *)
(***************************************************************************)

\* Bounds of the orchestrator model
MaxCrashes == 1

MaxCritical == 1

\* USE_HYBRID_FLOW defaults to "true"
USE_HYBRID_FLOW == TRUE

\* the domain of the Job's apply url
Site == "acme.no"

JobKinds ==
  {"finn_easy", "external_form", "external_registration", "email", "unknown", "no_url"}

\* is_finn_easy of process_application
IsFinnEasy(k) == k = "finn_easy"

\* the Job has an external_apply_url (not a FINN one)
HasExternalUrl(k) == k \in {"external_form", "external_registration", "email"}

\* the flow statuses process_application and trigger_registration_flow call active
ActiveFlowStatuses ==
  {"pending", "analyzing", "registering", "waiting_for_user", "email_verification",
   "sms_verification", "link_verification", "review_pending", "submitting"}

\* statuses of a task the automation service is still running
LiveTaskStatuses == {"created", "queued", "running"}

\* a gateway that asks for the standard confirmation whether or not a chat
\* id is configured
use_standard_confirmation_always(chatv, skip) == ~skip

\* chat_id and not skip_confirmation: the standard confirmation is requested
use_standard_confirmation(chatv, skip) == chatv /\ ~skip

\* use_hybrid of process_application
use_hybrid_flow(k, chatv, skip) ==
  USE_HYBRID_FLOW /\ ~IsFinnEasy(k) /\ HasExternalUrl(k) /\ chatv /\ ~skip

\* a new application_confirmations row; sent: the message reached the chat
NewConf(k, isSent) ==
  [kind |-> k, status |-> "pending", sent |-> isSent]

\* a new registration_questions row
NewQuestion == [status |-> "pending", answer |-> "none"]

\* a task the automation service accepted
NewTask(k) == [kind |-> k, status |-> "running"]

\* the rows of a table that are in one of the given statuses
RowsIn(table, statuses) == SelectSeq(table, LAMBDA r : r.status \in statuses)

\* a table without its newest row
DropLast(table) == SubSeq(table, 1, Len(table) - 1)

\* the variables no step of Spec changes
frame == <<sess, lastOp, now, tw, chat, kind, taskVars, dispVars, restVars>>

Init ==
  /\ chat \in BOOLEAN
  /\ kind \in JobKinds
  /\ store \in IF kind \in {"finn_easy", "email", "no_url"}
               THEN {{}}
               ELSE {{}, {ActiveRow(Site, "u1@mail", "pw1")}, {PlaceholderRow(Site)}}
  /\ appStatus = "sending"
  /\ meta = [waiting |-> FALSE, flow |-> 0]
  /\ confs = <<>> /\ questions = <<>> /\ tasks = <<>> /\ flows = <<>>
  /\ pc = "idle" /\ loc = Loc0
  /\ crashes = 0 /\ held = FALSE
  /\ WaitParked
  /\ TaskParked
  /\ DispParked
  /\ RestParked
  /\ sess = [a \in CredApps |-> [stage |-> "done", site |-> Site]]
  /\ lastOp = "init"

\* process_application returns
Return ==
  /\ pc' = "idle"
  /\ loc' = Loc0

\* main: select the Applications in status sending; process_user_applications
\* calls process_application.  Every read of a confirmation, question or
\* task is by the id of a row created in the same call, so rows that reached
\* a final status in an earlier call are dropped from the tables here
MainSelect ==
  /\ pc = "idle"
  /\ appStatus = "sending"
  /\ pc' = "pa_guard"
  /\ confs' = RowsIn(confs, {"pending"})
  /\ questions' = RowsIn(questions, {"pending"})
  /\ tasks' = RowsIn(tasks, LiveTaskStatuses)
  /\ loc' = [Loc0 EXCEPT !.base = Len(confs')]
  /\ UNCHANGED <<frame, store, appStatus, meta, flows, crashes, held>>

\* process_application: the waiting_for_registration guard and the url check
PA_Guard ==
  /\ pc = "pa_guard"
  /\ UNCHANGED <<frame, store, confs, questions, tasks, flows, crashes, held>>
  /\ IF meta.waiting /\ meta.flow # 0 /\ flows[meta.flow].status \in ActiveFlowStatuses
       THEN /\ appStatus' = IF appStatus = "sending" THEN "manual_review" ELSE appStatus
            /\ Return
            /\ UNCHANGED meta
     ELSE IF meta.waiting /\ meta.flow # 0 /\ flows[meta.flow].status # "completed"
       THEN /\ appStatus' = "failed"
            /\ meta' = [meta EXCEPT !.waiting = FALSE]
            /\ Return
     ELSE IF kind = "no_url"
       THEN /\ appStatus' = "failed"
            /\ meta' = [waiting |-> FALSE, flow |-> 0]
            /\ Return
     ELSE /\ meta' = [meta EXCEPT !.waiting = FALSE]
          /\ pc' = "pa_route"
          /\ UNCHANGED <<appStatus, loc>>

\* process_application: FlowRouter.route (only with a chat id, not for FINN)
PA_Route ==
  /\ pc = "pa_route"
  /\ UNCHANGED <<frame, store, meta, confs, questions, tasks, flows, crashes, held>>
  /\ IF ~IsFinnEasy(kind) /\ chat /\ kind = "email"
       THEN /\ appStatus' = "manual_review"
            /\ Return
     ELSE IF ~IsFinnEasy(kind) /\ chat /\ kind = "external_registration"
       THEN /\ \E r \in get_site_credentials(store, Site) :
                 pc' = IF r # NoRow THEN "pa_confirm" ELSE "trf_check"
            /\ UNCHANGED <<appStatus, loc>>
     ELSE /\ pc' = "pa_confirm"
          /\ UNCHANGED <<appStatus, loc>>

\* trigger_registration_flow: reuse an active flow of the application, else
\* ask whether an account exists
TRF_CheckExisting ==
  /\ pc = "trf_check"
  /\ UNCHANGED <<frame, store, appStatus, meta, confs, questions, tasks,
                 flows, crashes, held>>
  /\ IF \E f \in DOMAIN flows : flows[f].status \in ActiveFlowStatuses
       THEN Return
       ELSE /\ pc' = "ask"
            /\ loc' = [loc EXCEPT !.qret = "trf_q1"]

\* trigger_registration_flow / process_application: the three account
\* questions; q1 = account exists?, q2 = login email, q3 = password.
\* pre is "trf" or "pa".  With email and password the login is upserted (a
\* failed upsert is only logged); trigger_registration_flow then returns
\* None and its caller continues, while in process_application the else of
\* "if not has_creds" marks the application failed
\* (registration_start_failed) and returns.  Otherwise registration starts
AccountAnswer(pre) ==
  /\ pc \in {pre \o "_q1", pre \o "_q2", pre \o "_q3"}
  /\ UNCHANGED <<frame, meta, confs, questions, tasks, flows, crashes, held>>
  /\ IF pc = pre \o "_q1"
       THEN /\ IF loc.ans = "yes"
                 THEN /\ pc' = "ask"
                      /\ loc' = [loc EXCEPT !.qret = pre \o "_q2", !.ans = "none"]
                 ELSE /\ pc' = pre \o "_register"
                      /\ loc' = [loc EXCEPT !.ans = "none"]
            /\ UNCHANGED <<store, appStatus>>
     ELSE IF pc = pre \o "_q2"
       THEN /\ IF loc.ans # "none"
                 THEN /\ pc' = "ask"
                      /\ loc' = [loc EXCEPT !.qret = pre \o "_q3", !.ans = "none",
                                            !.email = TRUE]
                 ELSE /\ pc' = pre \o "_register"
                      /\ loc' = [loc EXCEPT !.ans = "none"]
            /\ UNCHANGED <<store, appStatus>>
     ELSE IF loc.email /\ loc.ans # "none"
       THEN /\ store' \in {UpsertUserCredentials(store, Site, "u1@mail", "pw1"), store}
            /\ IF pre = "trf"
                 THEN /\ pc' = "pa_confirm"
                      /\ loc' = [loc EXCEPT !.ans = "none", !.email = FALSE]
                      /\ UNCHANGED appStatus
                 ELSE /\ appStatus' = "failed"
                      /\ Return
       ELSE /\ pc' = pre \o "_register"
            /\ loc' = [loc EXCEPT !.ans = "none", !.email = FALSE]
            /\ UNCHANGED <<store, appStatus>>

\* trigger_registration_flow: trigger_registration inserts a pending flow and
\* the application waits for it; when the flow cannot be created the
\* application is marked failed and the caller continues
TRF_Register ==
  /\ pc = "trf_register"
  /\ UNCHANGED <<frame, store, confs, questions, tasks, crashes, held>>
  /\ \/ /\ flows' = Append(flows, [status |-> "pending"])
        /\ appStatus' = "manual_review"
        /\ meta' = [waiting |-> TRUE, flow |-> Len(flows) + 1]
        /\ Return
     \/ /\ appStatus' = "failed"
        /\ pc' = "pa_confirm"
        /\ UNCHANGED <<flows, meta, loc>>

\* ask_skyvern_question: chat id lookup, insert of the question, message
AskBegin ==
  /\ pc = "ask"
  /\ UNCHANGED <<frame, store, appStatus, meta, confs, tasks, flows, crashes, held>>
  /\ IF ~chat
       THEN /\ pc' = loc.qret
            /\ loc' = [loc EXCEPT !.ans = "none", !.qret = ""]
            /\ UNCHANGED questions
       ELSE \/ /\ questions' = Append(questions, NewQuestion)
               /\ pc' = "ask_poll"
               /\ loc' = [loc EXCEPT !.qid = Len(questions) + 1]
            \/ /\ pc' = loc.qret
               /\ loc' = [loc EXCEPT !.ans = "none", !.qret = ""]
               /\ UNCHANGED questions

\* ask_skyvern_question: one poll that finds the answer.  The row is not
\* read again and leaves the model
AskPoll ==
  /\ pc = "ask_poll"
  /\ questions[loc.qid].status = "answered"
  /\ pc' = loc.qret
  /\ loc' = [loc EXCEPT !.ans = questions[loc.qid].answer, !.qid = 0, !.qret = ""]
  /\ questions' = DropLast(questions)
  /\ UNCHANGED <<frame, store, appStatus, meta, confs, tasks, flows, crashes, held>>

\* ask_skyvern_question: the polling loop ran out; the question is set to
\* timeout whatever its status is by now.  The row is final and leaves the model
AskTimeout ==
  /\ pc = "ask_poll"
  /\ questions' = DropLast(questions)
  /\ pc' = loc.qret
  /\ loc' = [loc EXCEPT !.ans = "none", !.qid = 0, !.qret = ""]
  /\ UNCHANGED <<frame, store, appStatus, meta, confs, tasks, flows, crashes, held>>

\* process_application: choose hybrid flow, standard confirmation or none
PA_Confirm ==
  /\ pc = "pa_confirm"
  /\ UNCHANGED <<frame, store, appStatus, meta, confs, questions, tasks,
                 flows, loc, crashes, held>>
  /\ pc' = IF use_hybrid_flow(kind, chat, FALSE) THEN "hy_extract"
           ELSE IF use_standard_confirmation(chat, FALSE) THEN "std_create"
           ELSE "pa_flow"

\* extract_form_fields: one POST of the extraction task; on failure the
\* hybrid flow fails and process_application falls through
HY_SubmitExtraction ==
  /\ pc = "hy_extract"
  /\ UNCHANGED <<frame, store, appStatus, meta, confs, questions, flows,
                 crashes, held>>
  /\ \/ /\ tasks' = Append(tasks, NewTask("extract"))
        /\ pc' = "hy_wait"
        /\ loc' = [loc EXCEPT !.tid = Len(tasks) + 1]
     \/ /\ pc' = "pa_flow"
        /\ UNCHANGED <<tasks, loc>>

\* wait_for_extraction_task: completed with fields -> smart confirmation;
\* completed without fields, failed or terminated -> the hybrid flow fails;
\* max_wait exceeded -> the hybrid flow fails and the task keeps running.
\* A finished task is not read again and leaves the model
HY_WaitExtraction ==
  /\ pc = "hy_wait"
  /\ UNCHANGED <<frame, store, appStatus, meta, confs, questions, flows,
                 crashes, held>>
  /\ IF tasks[loc.tid].status = "completed"
       THEN pc' \in {"hy_confirm", "pa_flow"}
       ELSE pc' = "pa_flow"
  /\ tasks' = IF tasks[loc.tid].status \in LiveTaskStatuses
                THEN tasks
                ELSE DropLast(tasks)
  /\ loc' = [loc EXCEPT !.tid = 0]

\* send_smart_confirmation: insert the record, then send the message; a
\* failed send returns None and leaves the pending record
HY_SmartConfirmation ==
  /\ pc = "hy_confirm"
  /\ UNCHANGED <<frame, store, appStatus, meta, questions, tasks, flows,
                 crashes, held>>
  /\ \/ /\ confs' = Append(confs, NewConf("smart", TRUE))
        /\ pc' = "wfc"
        /\ loc' = [loc EXCEPT !.cid = Len(confs) + 1]
     \/ /\ confs' = Append(confs, NewConf("smart", FALSE))
        /\ pc' = "pa_flow"
        /\ UNCHANGED loc
     \/ /\ pc' = "pa_flow"
        /\ UNCHANGED <<confs, loc>>

\* create_confirmation_request: insert, send, store the message id.
\* Returns the id when the insert worked and nothing raised (even when the
\* message was not delivered), None otherwise
STD_CreateConfirmation ==
  /\ pc = "std_create"
  /\ UNCHANGED <<frame, store, appStatus, meta, questions, tasks, flows,
                 crashes, held>>
  /\ \/ \E isSent \in BOOLEAN :
          /\ confs' = Append(confs, NewConf("standard", isSent))
          /\ pc' = "wfc"
          /\ loc' = [loc EXCEPT !.cid = Len(confs) + 1]
     \/ /\ confs' = Append(confs, NewConf("standard", TRUE))
        /\ pc' = "pa_flow"
        /\ UNCHANGED loc
     \/ /\ pc' = "pa_flow"
        /\ UNCHANGED <<confs, loc>>

\* wait_for_confirmation: the poll that ends the wait.  confirmed and
\* cancelled are returned (cancelled: the application goes back to draft);
\* otherwise this is the poll that finds now past expires_at, and the
\* timeout write is next
WFC_Poll ==
  /\ pc = "wfc"
  /\ UNCHANGED <<frame, store, meta, confs, questions, tasks, flows, crashes, held>>
  /\ IF confs[loc.cid].status = "confirmed"
       THEN /\ pc' = "pa_flow"
            /\ UNCHANGED <<appStatus, loc>>
     ELSE IF confs[loc.cid].status = "cancelled"
       THEN /\ appStatus' = "draft"
            /\ Return
     ELSE /\ pc' = "wfc_timeout"
          /\ UNCHANGED <<appStatus, loc>>

\* wait_for_confirmation: update status = timeout by id, return timeout;
\* process_application then reverts the application to draft
WFC_WriteTimeout ==
  /\ pc = "wfc_timeout"
  /\ confs' = [confs EXCEPT ![loc.cid].status = "timeout"]
  /\ appStatus' = "draft"
  /\ Return
  /\ UNCHANGED <<frame, store, meta, questions, tasks, flows, crashes, held>>

\* process_application: FINN flow or standard form flow
PA_Flow ==
  /\ pc = "pa_flow"
  /\ pc' = IF IsFinnEasy(kind) THEN "finn_submit" ELSE "cred_check"
  /\ UNCHANGED <<frame, store, appStatus, meta, confs, questions, tasks,
                 flows, loc, crashes, held>>

\* trigger_finn_apply_task: submission (with its retries) succeeds or not
FINN_Submit ==
  /\ pc = "finn_submit"
  /\ UNCHANGED <<frame, store, meta, confs, questions, flows, crashes, held>>
  /\ \/ /\ tasks' = Append(tasks, NewTask("finn"))
        /\ pc' = "task_started"
        /\ loc' = [loc EXCEPT !.tid = Len(tasks) + 1]
        /\ UNCHANGED appStatus
     \/ /\ appStatus' = "failed"
        /\ Return
        /\ UNCHANGED tasks

\* process_application, standard form: check_credentials_for_url, the
\* magic-link short-circuit, and the account questions for
\* external_registration without a login
PA_CredCheck ==
  /\ pc = "cred_check"
  /\ UNCHANGED <<frame, store, meta, confs, questions, tasks, flows, crashes, held>>
  /\ \E r \in get_site_credentials(store, Site) :
       IF r # NoRow /\ r.magic
         THEN /\ appStatus' = "manual_review"
              /\ Return
       ELSE IF ~has_active_creds(r) /\ kind = "external_registration"
         THEN /\ IF chat
                   THEN /\ pc' = "ask"
                        /\ loc' = [loc EXCEPT !.qret = "pa_q1"]
                   ELSE /\ pc' = "pa_register"
                        /\ UNCHANGED loc
              /\ UNCHANGED appStatus
       ELSE /\ pc' = "tswc"
            /\ \E n \in 0..MaxCritical : loc' = [loc EXCEPT !.left = n]
            /\ UNCHANGED appStatus

\* process_application: trigger_registration; with a flow id the application
\* waits in wait_for_registration_completion; without one ("if flow_id" has
\* no else) it goes on to the form filling
PA_Register ==
  /\ pc = "pa_register"
  /\ UNCHANGED <<frame, store, confs, questions, tasks, crashes, held>>
  /\ \/ /\ flows' = Append(flows, [status |-> "pending"])
        /\ appStatus' = "manual_review"
        /\ meta' = [waiting |-> TRUE, flow |-> Len(flows) + 1]
        /\ pc' = "wrc"
        /\ UNCHANGED loc
     \/ /\ pc' = "tswc"
        /\ \E n \in 0..MaxCritical : loc' = [loc EXCEPT !.left = n]
        /\ UNCHANGED <<appStatus, meta, flows>>

\* wait_for_registration_completion and what follows it: completed -> the
\* task is prepared; failed, cancelled or max_wait_seconds exceeded -> failed
PA_WaitRegistration ==
  /\ pc = "wrc"
  /\ UNCHANGED <<frame, store, confs, questions, tasks, flows, crashes, held>>
  /\ IF flows[meta.flow].status = "completed"
       THEN /\ \E n \in 0..MaxCritical : loc' = [loc EXCEPT !.left = n]
            /\ pc' = "tswc"
            /\ UNCHANGED <<appStatus, meta>>
       ELSE /\ appStatus' = "failed"
            /\ meta' = [waiting |-> FALSE, flow |-> 0]
            /\ Return

\* trigger_skyvern_task_with_credentials: one question per empty critical field
TSWC_CriticalFields ==
  /\ pc \in {"tswc", "tswc_q"}
  /\ UNCHANGED <<frame, store, appStatus, meta, confs, questions, tasks,
                 flows, crashes, held>>
  /\ IF loc.left > 0
       THEN /\ pc' = "ask"
            /\ loc' = [loc EXCEPT !.left = loc.left - 1, !.qret = "tswc_q",
                                  !.ans = "none"]
       ELSE /\ pc' = "tswc_preview"
            /\ loc' = [loc EXCEPT !.ans = "none"]

\* send_payload_preview: insert the record and send the preview.  Without a
\* chat id there is no preview.  A failed insert or an undelivered message
\* returns 'timeout', and trigger_skyvern_task_with_credentials proceeds
TSWC_Preview ==
  /\ pc = "tswc_preview"
  /\ UNCHANGED <<frame, store, appStatus, meta, questions, tasks, flows,
                 crashes, held>>
  /\ IF ~chat
       THEN /\ pc' = "tswc_submit"
            /\ UNCHANGED <<confs, loc>>
       ELSE \/ /\ confs' = Append(confs, NewConf("preview", TRUE))
               /\ pc' = "pv_poll"
               /\ loc' = [loc EXCEPT !.pvid = Len(confs) + 1]
            \/ /\ confs' = Append(confs, NewConf("preview", FALSE))
               /\ pc' = "tswc_submit"
               /\ UNCHANGED loc
            \/ /\ pc' = "tswc_submit"
               /\ UNCHANGED <<confs, loc>>

\* send_payload_preview: one poll that finds confirmed or cancelled.
\* cancelled: trigger_skyvern_task_with_credentials returns None and
\* process_application marks the application failed (skyvern_start_failed)
PV_Poll ==
  /\ pc = "pv_poll"
  /\ UNCHANGED <<frame, store, meta, confs, questions, tasks, flows, crashes, held>>
  /\ IF confs[loc.pvid].status = "confirmed"
       THEN /\ pc' = "tswc_submit"
            /\ UNCHANGED <<appStatus, loc>>
       ELSE /\ confs[loc.pvid].status = "cancelled"
            /\ appStatus' = "failed"
            /\ Return

\* send_payload_preview: the polling loop ran out; status = timeout is
\* written by id and the caller proceeds to submit
PV_Timeout ==
  /\ pc = "pv_poll"
  /\ confs' = [confs EXCEPT ![loc.pvid].status = "timeout"]
  /\ pc' = "tswc_submit"
  /\ UNCHANGED <<frame, store, appStatus, meta, questions, tasks, flows,
                 loc, crashes, held>>

\* trigger_skyvern_task_with_credentials: submit_skyvern_task_with_retry
TSWC_Submit ==
  /\ pc = "tswc_submit"
  /\ UNCHANGED <<frame, store, meta, confs, questions, flows, crashes, held>>
  /\ \/ /\ tasks' = Append(tasks, NewTask("fill"))
        /\ pc' = "task_started"
        /\ loc' = [loc EXCEPT !.tid = Len(tasks) + 1]
        /\ UNCHANGED appStatus
     \/ /\ appStatus' = "failed"
        /\ Return
        /\ UNCHANGED tasks

\* process_application: the task id is stored and the application set to
\* manual_review while the task runs
PA_TaskStarted ==
  /\ pc = "task_started"
  /\ appStatus' = "manual_review"
  /\ meta' = [waiting |-> FALSE, flow |-> 0]
  /\ pc' = "monitor"
  /\ UNCHANGED <<frame, store, confs, questions, tasks, flows, loc, crashes, held>>

\* results monitor_task_status can return for a finished task, over the
\* extracted information, error codes and failure text the service reports
TaskResults(st) ==
  IF st = "completed"
    THEN {"magic_link", "sent", "manual_review"}
    ELSE {"magic_link", "manual_review", "failed"}

\* monitor_task_status, cancellation branch: the application was set to
\* approved; cancel_skyvern_task is best effort; process_application returns.
\* A task that is cancelled or finished leaves the model
MON_Cancelled ==
  /\ pc = "monitor"
  /\ appStatus = "approved"
  /\ \E ok \in BOOLEAN :
       tasks' = IF ok \/ tasks[loc.tid].status \notin LiveTaskStatuses
                  THEN DropLast(tasks)
                  ELSE tasks
  /\ Return
  /\ UNCHANGED <<frame, store, appStatus, meta, confs, questions, flows,
                 crashes, held>>

\* monitor_task_status sees the finished task, and process_application
\* writes the result: magic_link -> mark the site (standard flow) and
\* manual_review; else the final status, and the confirmation -> submitted.
\* The finished task leaves the model
MON_Finished ==
  /\ pc = "monitor"
  /\ appStatus # "approved"
  /\ tasks[loc.tid].status \notin LiveTaskStatuses
  /\ \E res \in TaskResults(tasks[loc.tid].status) :
     /\ IF res = "magic_link" /\ ~IsFinnEasy(kind)
          THEN \E first \in MarkFirstRows(store, Site) :
                 store' = mark_site_as_magic_link(store, Site, first)
          ELSE UNCHANGED store
     /\ appStatus' = IF res = "magic_link" THEN "manual_review" ELSE res
     /\ confs' = IF res = "sent" /\ loc.cid # 0
                   THEN [confs EXCEPT ![loc.cid].status = "submitted"]
                   ELSE confs
  /\ tasks' = DropLast(tasks)
  /\ Return
  /\ UNCHANGED <<frame, meta, questions, flows, crashes, held>>

(***************************************************************************)
(* The other parties: inbound handler, user, automation service,           *)
(* registration worker, worker restart                                     *)
(***************************************************************************)

\* inbound handler: the user presses confirm or cancel on a delivered,
\* pending confirmation.  Only a row whose id the worker holds is read
\* again, so only such rows are followed
InboundResolve(i, s) ==
  /\ i \in DOMAIN confs
  /\ i \in {loc.cid, loc.pvid}
  /\ confs[i].status = "pending"
  /\ confs[i].sent
  /\ confs' = [confs EXCEPT ![i].status = s]
  /\ UNCHANGED <<frame, store, appStatus, meta, questions, tasks, flows, pc,
                 loc, crashes, held>>

\* inbound handler: the user answers the question the worker waits on
\* (yes / no to the account question, text to the others)
InboundAnswer(v) ==
  /\ pc = "ask_poll"
  /\ questions[loc.qid].status = "pending"
  /\ v \in (IF loc.qret \in {"trf_q1", "pa_q1"} THEN {"yes", "no"} ELSE {"text"})
  /\ questions' = [questions EXCEPT ![loc.qid] = [status |-> "answered", answer |-> v]]
  /\ UNCHANGED <<frame, store, appStatus, meta, confs, tasks, flows, pc, loc,
                 crashes, held>>

\* the user stops a running submission: applications.status := approved
UserCancel ==
  /\ pc = "monitor"
  /\ appStatus = "manual_review"
  /\ appStatus' = "approved"
  /\ UNCHANGED <<frame, store, meta, confs, questions, tasks, flows, pc, loc,
                 crashes, held>>

\* automation service: the task the worker waits on reaches a final status
TaskFinish(t) ==
  /\ t \in DOMAIN tasks
  /\ t = loc.tid
  /\ tasks[t].status \in LiveTaskStatuses
  /\ \E st \in {"completed", "failed", "terminated"} :
       tasks' = [tasks EXCEPT ![t].status = st]
  /\ UNCHANGED <<frame, store, appStatus, meta, confs, questions, flows, pc,
                 loc, crashes, held>>

\* registration worker, process_pending_flows and process_registration as
\* one step: the registration succeeded; the login is saved, the flow
\* completed and the linked application, if it is in manual_review, set back
\* to sending.  If the save fails the flow fails
REG_Complete(f) ==
  /\ pc # "off"
  /\ f \in DOMAIN flows
  /\ flows[f].status = "pending"
  /\ LET new == save_site_credentials(store, Site, "u2@mail", "pw2") IN
     /\ store' = new
     /\ IF new # store
          THEN /\ flows' = [flows EXCEPT ![f].status = "completed"]
               /\ appStatus' = IF appStatus = "manual_review" THEN "sending" ELSE appStatus
          ELSE /\ flows' = [flows EXCEPT ![f].status = "failed"]
               /\ UNCHANGED appStatus
  /\ UNCHANGED <<frame, meta, confs, questions, tasks, pc, loc, crashes, held>>

\* registration worker, process_registration: the registration failed or
\* was cancelled by the user
REG_Fail(f) ==
  /\ pc # "off"
  /\ f \in DOMAIN flows
  /\ flows[f].status = "pending"
  /\ \E s \in {"failed", "cancelled"} : flows' = [flows EXCEPT ![f].status = s]
  /\ UNCHANGED <<frame, store, appStatus, meta, confs, questions, tasks, pc,
                 loc, crashes, held>>

\* the positions where process_application waits for another party
SuspensionPoints ==
  {"ask_poll", "hy_wait", "wfc", "wrc", "pv_poll", "task_started", "monitor"}

\* the worker waits on a confirmation that is delivered and still pending
WaitsOnPending ==
  \/ pc = "wfc" /\ confs[loc.cid].status = "pending" /\ confs[loc.cid].sent
  \/ pc = "pv_poll" /\ confs[loc.pvid].status = "pending"

\* the worker process stops and a new instance starts: every local variable
\* is lost, the tables are what they were
Restart ==
  /\ pc \in SuspensionPoints
  /\ crashes < MaxCrashes
  /\ crashes' = crashes + 1
  /\ held' = (held \/ WaitsOnPending)
  /\ Return
  /\ UNCHANGED <<frame, store, appStatus, meta, confs, questions, tasks, flows>>

Worker ==
  \/ MainSelect
  \/ PA_Guard
  \/ PA_Route
  \/ TRF_CheckExisting
  \/ AccountAnswer("trf")
  \/ AccountAnswer("pa")
  \/ TRF_Register
  \/ AskBegin
  \/ AskPoll
  \/ AskTimeout
  \/ PA_Confirm
  \/ HY_SubmitExtraction
  \/ HY_WaitExtraction
  \/ HY_SmartConfirmation
  \/ STD_CreateConfirmation
  \/ WFC_Poll
  \/ WFC_WriteTimeout
  \/ PA_Flow
  \/ FINN_Submit
  \/ PA_CredCheck
  \/ PA_Register
  \/ PA_WaitRegistration
  \/ TSWC_CriticalFields
  \/ TSWC_Preview
  \/ PV_Poll
  \/ PV_Timeout
  \/ TSWC_Submit
  \/ PA_TaskStarted
  \/ MON_Cancelled
  \/ MON_Finished

Environment ==
  \/ \E i \in DOMAIN confs, s \in {"confirmed", "cancelled"} : InboundResolve(i, s)
  \/ \E v \in {"yes", "no", "text"} : InboundAnswer(v)
  \/ UserCancel
  \/ \E t \in DOMAIN tasks : TaskFinish(t)
  \/ \E f \in DOMAIN flows : REG_Complete(f)
  \/ \E f \in DOMAIN flows : REG_Fail(f)
  \/ Restart

Next == Worker \/ Environment

Spec == Init /\ [][Next]_vars

(***************************************************************************)
(* SpecWait: one human wait under a clock.  The record is created at time  *)
(* 0 with expires_at = timeout; the wait starts after the message is sent, *)
(* and polls until it returns                                              *)
(***************************************************************************)

\* Bounds of the timed model: seconds the send may take before the wait
\* starts, and seconds a sleep may overrun
MaxSendDelay == 3

MaxJitter == 1

CONFIRMATION_TIMEOUT_SECONDS == 300

PAYLOAD_PREVIEW_TIMEOUT_SECONDS == 600

\* timeout_seconds of ask_skyvern_question
QUESTION_TIMEOUT_SECONDS == 300

\* poll_interval of wait_for_confirmation, sleep(3) of the other two loops
POLL_INTERVAL == 3

\* wait_for_registration_confirmation (register_site.py)
REGISTRATION_CONFIRMATION_TIMEOUT == 300

WaitKinds == {"confirmation", "preview", "question", "registration"}

\* the timeout each kind of wait is created with
TimeoutOf(k) ==
  IF k = "confirmation" THEN CONFIRMATION_TIMEOUT_SECONDS
  ELSE IF k = "preview" THEN PAYLOAD_PREVIEW_TIMEOUT_SECONDS
  ELSE IF k = "registration" THEN REGISTRATION_CONFIRMATION_TIMEOUT
  ELSE QUESTION_TIMEOUT_SECONDS

\* the clock stops some polls after the timeout of the wait
WaitHorizon(k) == TimeoutOf(k) + MaxSendDelay + 3 * (POLL_INTERVAL + MaxJitter)

\* the record as inserted at time t: expires_at = t + timeout
NewWait(k, t) ==
  [kind |-> k, created |-> t, expires |-> t + TimeoutOf(k), start |-> -1,
   begun |-> -1, status |-> "pending", result |-> "none", polledAt |-> -1]

\* what a poll at time t returns for record w.  wait_for_confirmation
\* compares the clock with the persisted expires_at (now > expires); the
\* loops of send_payload_preview and ask_skyvern_question run while the time
\* since their own start is below the timeout; any status other than the
\* resolved ones leaves them waiting, and wait_for_registration_confirmation
\* goes on (continue) while the status is editing
PollResult(w, t) ==
  IF w.status = "resolved" THEN w.status
  ELSE IF w.kind = "confirmation"
    THEN IF t > w.expires THEN "timeout" ELSE "waiting"
  ELSE IF w.kind = "registration" /\ w.status = "editing" THEN "waiting"
  ELSE IF t - w.start < TimeoutOf(w.kind) THEN "waiting" ELSE "timeout"

\* start_time after a poll at time t: wait_for_registration_confirmation
\* resets it while the status is editing
StartAfterPoll(w, t) ==
  IF w.kind = "registration" /\ w.status = "editing" THEN t ELSE w.start

InitWait ==
  /\ store = {}
  /\ MainParked
  /\ TaskParked
  /\ DispParked
  /\ RestParked
  /\ sess = [a \in CredApps |-> [stage |-> "done", site |-> "acme.no"]]
  /\ lastOp = "init"
  /\ now = 0
  /\ tw \in {NewWait(k, 0) : k \in WaitKinds}

\* a second passes; not while a start or a poll is overdue
Tick ==
  /\ tw.kind # "none"
  /\ tw.result \in {"none", "waiting"}
  /\ IF tw.start = -1
       THEN now < MaxSendDelay
       ELSE now - tw.polledAt < POLL_INTERVAL + MaxJitter
  /\ now < WaitHorizon(tw.kind)
  /\ now' = now + 1
  /\ UNCHANGED <<store, credVars, mainVars, taskVars, dispVars, restVars, tw>>

\* the message is out and the wait begins: start = now, first pass of the loop
WaitStart ==
  /\ tw.kind # "none"
  /\ tw.start = -1
  /\ tw' = [tw EXCEPT !.start = now, !.begun = now, !.polledAt = now,
                      !.result = "waiting"]
  /\ UNCHANGED <<store, credVars, mainVars, taskVars, dispVars, restVars, now>>

\* after the sleep: read the record and classify
WaitPoll ==
  /\ tw.result = "waiting"
  /\ now - tw.polledAt >= POLL_INTERVAL
  /\ tw' = [tw EXCEPT !.polledAt = now, !.result = PollResult(tw, now),
                      !.start = StartAfterPoll(tw, now)]
  /\ UNCHANGED <<store, credVars, mainVars, taskVars, dispVars, restVars, now>>

\* inbound handler: the user resolves the record
WaitResolve ==
  /\ tw.kind # "none"
  /\ tw.status \in {"pending", "editing"}
  /\ tw.result \in {"none", "waiting"}
  /\ tw' = [tw EXCEPT !.status = "resolved"]
  /\ UNCHANGED <<store, credVars, mainVars, taskVars, dispVars, restVars, now>>

\* inbound handler: the user opens the edit dialogue of the record
WaitEdit ==
  /\ tw.kind # "none"
  /\ tw.status = "pending"
  /\ tw.result \in {"none", "waiting"}
  /\ tw' = [tw EXCEPT !.status = "editing"]
  /\ UNCHANGED <<store, credVars, mainVars, taskVars, dispVars, restVars, now>>

NextWait == Tick \/ WaitStart \/ WaitPoll \/ WaitResolve \/ WaitEdit

SpecWait == InitWait /\ [][NextWait]_vars

(***************************************************************************)
(* SpecTask: one automation task of one Application, from the trigger to   *)
(* the final status write                                                  *)
(***************************************************************************)

\* Bound of the task model: the most key phrases a failure reason carries
MaxPhrases == 2

RETRY_ATTEMPTS == 3

\* seconds between retries
RETRY_BACKOFF == <<5, 10>>

\* the keys of SKYVERN_ERROR_CODES and FINN_ERROR_CODES
CustomCodes ==
  {"magic_link", "position_closed", "login_failed", "registration_required",
   "file_upload_required", "captcha_blocked", "2fa_timeout"}

skyvern_internal_codes == {"REACH_MAX_STEPS", "REACH_MAX_RETRIES"}

\* the phrases of a failure reason that monitor_task_status looks for
ReasonPhrases ==
  {"check email", "login link", "post-login", "magic link", "email link",
   "verification", "manual"}

\* w in reason_lower: w is a substring of one of the phrases the text carries
Contains(reason, w) ==
  \/ w \in reason
  \/ w = "email" /\ reason \cap {"check email", "email link"} # {}
  \/ w = "link" /\ reason \cap {"login link", "magic link", "email link"} # {}

\* is_magic_link of the string fallback
is_magic_link(reason) ==
  \/ Contains(reason, "check email") /\ Contains(reason, "link")
  \/ Contains(reason, "email") /\ Contains(reason, "login link")
  \/ Contains(reason, "post-login") /\ Contains(reason, "email")
  \/ Contains(reason, "magic link")
  \/ Contains(reason, "email link")
  \/ Contains(reason, "email")
       /\ (Contains(reason, "link") \/ Contains(reason, "verification"))

\* a monitor that keeps the custom codes next to REACH_MAX_STEPS
error_codes_unfiltered(codes) == codes

\* error_codes after the REACH_MAX_STEPS filter: with that code present only
\* the service's own codes are kept
error_codes_filtered(codes) ==
  IF "REACH_MAX_STEPS" \in codes THEN codes \cap skyvern_internal_codes ELSE codes

\* a monitor that takes no branch on the structured codes
result_of_codes_none(ec) == "none"

\* the if / elif chain over the structured codes; "none": no branch taken
result_of_codes(ec) ==
  IF "magic_link" \in ec THEN "magic_link"
  ELSE IF "position_closed" \in ec THEN "failed"
  ELSE IF "registration_required" \in ec THEN "manual_review"
  ELSE IF "file_upload_required" \in ec THEN "manual_review"
  ELSE IF "captcha_blocked" \in ec THEN "manual_review"
  ELSE IF "login_failed" \in ec THEN "failed"
  ELSE IF "2fa_timeout" \in ec THEN "failed"
  ELSE "none"

\* extracted_data.get('application_submitted'): the form-filling schema
\* extracts application_submitted, the FINN schema extracts application_sent,
\* so a FINN result has no such key
application_submitted(flow, r) == IF flow = "finn" THEN "absent" ELSE r.said

\* what one pass of the loop of monitor_task_status makes of response r;
\* "continue": the task is not final and the loop sleeps.  The texts the
\* REACH_MAX_RETRIES branch looks for only choose the notification
monitor_result(flow, r) ==
  IF r.magic THEN "magic_link"
  ELSE IF r.status = "completed"
    THEN IF application_submitted(flow, r) = "false" THEN "manual_review" ELSE "sent"
  ELSE IF r.status \in {"failed", "terminated"}
    THEN LET ec == error_codes_filtered(r.codes) IN
         IF result_of_codes(ec) # "none" THEN result_of_codes(ec)
         ELSE IF "REACH_MAX_RETRIES" \in ec THEN "manual_review"
         ELSE IF "REACH_MAX_STEPS" \in ec THEN "manual_review"
         ELSE IF is_magic_link(r.reason) THEN "magic_link"
         ELSE IF Contains(r.reason, "manual") THEN "manual_review"
         ELSE "failed"
  ELSE "continue"

\* the responses the service can give for a task of the flow.  magic: the
\* extraction flags magic_link_sent (only the form-filling schema has the
\* key); said: what the extraction says about the submission
PolledResults(flow) ==
  LET Flags == IF flow = "finn" THEN {FALSE} ELSE BOOLEAN IN
  [status : {"running", "timed_out"}, codes : {{}}, magic : Flags,
   said : {"absent"}, reason : {{}}]
  \cup
  [status : {"completed"}, codes : {{}}, magic : Flags,
   said : {"true", "false", "absent"}, reason : {{}}]
  \cup
  [status : {"failed", "terminated"},
   codes : SUBSET (CustomCodes \cup skyvern_internal_codes), magic : Flags,
   said : {"absent"},
   reason : {x \in SUBSET ReasonPhrases : Cardinality(x) <= MaxPhrases}]

\* a process_application that writes whatever the monitor returned
final_status_any(ret, cur) ==
  IF ret = "magic_link" THEN "manual_review" ELSE ret

\* applications.status after process_application handled final_status:
\* cancelled -> no write; magic_link -> manual_review; else the status itself
final_status(ret, cur) ==
  IF ret = "cancelled" THEN cur
  ELSE IF ret = "magic_link" THEN "manual_review"
  ELSE ret

\* a retry loop that always waits the first delay
backoff_first(attempt) == RETRY_BACKOFF[1]

\* RETRY_BACKOFF[min(attempt, len(RETRY_BACKOFF) - 1)], attempt from 0
backoff(attempt) ==
  RETRY_BACKOFF[(IF attempt < Len(RETRY_BACKOFF) - 1
                   THEN attempt ELSE Len(RETRY_BACKOFF) - 1) + 1]

InitTask ==
  /\ store = {}
  /\ MainParked
  /\ WaitParked
  /\ DispParked
  /\ RestParked
  /\ sess = [a \in CredApps |-> [stage |-> "done", site |-> "acme.no"]]
  /\ lastOp = "init"
  /\ sub = Sub0
  /\ polled = NoResult
  /\ \E f \in {"finn", "standard"} :
       mon = [pc |-> "trigger", flow |-> f, task |-> "none", read |-> "none",
              ret |-> "none", cancels |-> 0]
  /\ tapp = [status |-> "sending", reason |-> "none"]

\* the variables no step of SpecTask changes
taskFrame == <<credVars, mainVars, waitVars, dispVars, restVars>>

\* trigger_finn_apply_task, and trigger_skyvern_task_with_credentials up to
\* the submission: a cancelled payload preview returns None before any
\* request; no preview, a confirmed one and a timed-out one go on to submit
TK_Trigger ==
  /\ mon.pc = "trigger"
  /\ \E pv \in IF mon.flow = "finn"
                 THEN {"none"}
                 ELSE {"none", "confirmed", "timeout", "cancelled"} :
       IF pv = "cancelled"
         THEN /\ mon' = [mon EXCEPT !.pc = "triggered", !.task = "null"]
              /\ UNCHANGED sub
         ELSE /\ mon' = [mon EXCEPT !.pc = "submit"]
              /\ sub' = [Sub0 EXCEPT !.pc = "probe"]
  /\ UNCHANGED <<taskFrame, store, polled, tapp>>

\* submit_skyvern_task_with_retry, attempt 0: check_skyvern_health; its
\* result is logged
SUB_Probe ==
  /\ sub.pc = "probe"
  /\ \E h \in {"yes", "no"} : sub' = [sub EXCEPT !.healthy = h, !.pc = "post"]
  /\ UNCHANGED <<taskFrame, store, polled, mon, tapp>>

\* submit_skyvern_task_with_retry: one POST /api/v1/tasks.  200 returns the
\* task id; another status or an exception goes to the backoff, or out of
\* the loop after the last attempt
SUB_Post ==
  /\ sub.pc = "post"
  /\ \E o \in {"ok", "api_error", "connect_error", "exception"} :
       sub' = [sub EXCEPT
                 !.posts = Append(@, o),
                 !.pc = IF o = "ok" \/ sub.attempt >= RETRY_ATTEMPTS - 1
                          THEN "return" ELSE "backoff",
                 !.ret = IF o = "ok" THEN "id"
                         ELSE IF sub.attempt >= RETRY_ATTEMPTS - 1 THEN "null"
                         ELSE @]
  /\ UNCHANGED <<taskFrame, store, polled, mon, tapp>>

\* submit_skyvern_task_with_retry: the sleep before the next attempt
SUB_Backoff ==
  /\ sub.pc = "backoff"
  /\ sub' = [sub EXCEPT !.slept = Append(@, backoff(sub.attempt)),
                        !.attempt = @ + 1,
                        !.pc = "post"]
  /\ UNCHANGED <<taskFrame, store, polled, mon, tapp>>

\* submit_skyvern_task_with_retry returns to process_application
SUB_Return ==
  /\ sub.pc = "return"
  /\ sub' = [sub EXCEPT !.pc = "done"]
  /\ mon' = [mon EXCEPT !.pc = "triggered", !.task = sub.ret]
  /\ UNCHANGED <<taskFrame, store, polled, tapp>>

\* process_application, task_id is None: failed, skyvern_start_failed
TK_StartFailed ==
  /\ mon.pc = "triggered"
  /\ mon.task = "null"
  /\ tapp' = [status |-> "failed", reason |-> "skyvern_start_failed"]
  /\ mon' = [mon EXCEPT !.pc = "end"]
  /\ UNCHANGED <<taskFrame, store, polled, sub>>

\* process_application, task started: manual_review with the task id in the
\* metadata, then monitor_task_status
TK_Started ==
  /\ mon.pc = "triggered"
  /\ mon.task = "id"
  /\ tapp' = [status |-> "manual_review", reason |-> "none"]
  /\ mon' = [mon EXCEPT !.pc = "check"]
  /\ sub' = Sub0
  /\ UNCHANGED <<taskFrame, store, polled>>

\* monitor_task_status, top of the loop: read applications.status; approved
\* -> cancel_skyvern_task and return cancelled.  A failed read is logged and
\* the loop goes on to poll
MON_Check ==
  /\ mon.pc = "check"
  /\ \E rd \in {"ok", "error"} :
       IF rd = "ok" /\ tapp.status = "approved"
         THEN mon' = [mon EXCEPT !.pc = "returned", !.read = rd,
                                 !.ret = "cancelled", !.cancels = @ + 1]
         ELSE mon' = [mon EXCEPT !.pc = "poll", !.read = rd]
  /\ UNCHANGED <<taskFrame, store, polled, sub, tapp>>

\* monitor_task_status: GET /api/v1/tasks/{id}.  A response other than 200
\* or an exception -> sleep; else the response is classified
MON_Poll ==
  /\ mon.pc = "poll"
  /\ \/ /\ mon' = [mon EXCEPT !.pc = "sleep"]
        /\ UNCHANGED polled
     \/ \E r \in PolledResults(mon.flow) :
          /\ polled' = r
          /\ mon' = IF monitor_result(mon.flow, r) = "continue"
                      THEN [mon EXCEPT !.pc = "sleep"]
                      ELSE [mon EXCEPT !.pc = "returned",
                                       !.ret = monitor_result(mon.flow, r)]
  /\ UNCHANGED <<taskFrame, store, sub, tapp>>

\* monitor_task_status: asyncio.sleep(10), then the next iteration
MON_Sleep ==
  /\ mon.pc = "sleep"
  /\ mon' = [mon EXCEPT !.pc = "check"]
  /\ UNCHANGED <<taskFrame, store, polled, sub, tapp>>

\* process_application after monitor_task_status returned: the status write;
\* magic_link in the form-filling flow also marks the site
TK_Finish ==
  /\ mon.pc = "returned"
  /\ tapp' = [tapp EXCEPT !.status = final_status(mon.ret, @)]
  /\ IF mon.ret = "magic_link" /\ mon.flow = "standard"
       THEN \E first \in MarkFirstRows(store, "acme.no") :
              store' = mark_site_as_magic_link(store, "acme.no", first)
       ELSE UNCHANGED store
  /\ mon' = [mon EXCEPT !.pc = "end"]
  /\ polled' = NoResult
  /\ UNCHANGED <<taskFrame, sub>>

\* the user stops the running submission: applications.status := approved
TK_UserCancel ==
  /\ mon.pc \in {"check", "poll", "sleep"}
  /\ tapp.status = "manual_review"
  /\ tapp' = [tapp EXCEPT !.status = "approved"]
  /\ UNCHANGED <<taskFrame, store, polled, sub, mon>>

NextTask ==
  \/ TK_Trigger
  \/ SUB_Probe
  \/ SUB_Post
  \/ SUB_Backoff
  \/ SUB_Return
  \/ TK_StartFailed
  \/ TK_Started
  \/ MON_Check
  \/ MON_Poll
  \/ MON_Sleep
  \/ TK_Finish
  \/ TK_UserCancel

SpecTask == InitTask /\ [][NextTask]_vars

(***************************************************************************)
(* SpecDisp: one cycle of main: the selected rows are grouped by tenant    *)
(* and each group runs process_user_applications under the semaphore       *)
(***************************************************************************)

\* Bounds of the dispatcher model: tenants with rows in the cycle, and rows
\* of the first tenant (the other tenants have one row each)
NumTenants == 4

MaxApps == 2

\* default of the environment variable MAX_CONCURRENT_USERS
MAX_CONCURRENT_USERS == 3

\* the flows of the first tenant's rows, in selection order
FlowSeqs == UNION {[1..n -> {"finn", "other"}] : n \in 1..MaxApps}

\* response.data of the select: the rows of tenant 1, then one row of each
\* of the tenants 2..n
Selection(fs, n) ==
  [i \in 1..(Len(fs) + n - 1) |->
     IF i <= Len(fs)
       THEN [tenant |-> 1, flow |-> fs[i]]
       ELSE [tenant |-> i - Len(fs) + 1, flow |-> "other"]]

\* a grouping that makes one group of every row
group_each_application(rows) ==
  [k \in DOMAIN rows |-> <<k>>]

\* group_applications_by_user: one list per user_id, rows in selection order
group_applications_by_user(rows) ==
  [u \in {rows[i].tenant : i \in DOMAIN rows} |->
     SelectSeq([i \in 1..Len(rows) |-> i], LAMBDA i : rows[i].tenant = u)]

\* a semaphore that never blocks
semaphore_free_always(p) == TRUE

\* asyncio.Semaphore: acquire passes while the value is positive
semaphore_free(p) == p > 0

\* a pipeline that gives up its group at the first exception
after_exception_abort(g) == "aborted"

\* the except of the for loops: the loop goes on with the next row
after_exception(g) == "loop"

\* process_user_applications of a group before it entered the semaphore
NewPipe(apps) ==
  [pc |-> "created", apps |-> apps, todo |-> <<>>, cur |-> 0, log |-> <<>>,
   errs |-> {}, lost |-> {}]

\* the pipelines inside "async with semaphore"
InsidePcs == {"inside", "loop", "in_pa", "aborted"}

InitDisp ==
  /\ store = {}
  /\ MainParked
  /\ WaitParked
  /\ TaskParked
  /\ RestParked
  /\ sess = [a \in CredApps |-> [stage |-> "done", site |-> "acme.no"]]
  /\ lastOp = "init"
  /\ \E fs \in FlowSeqs, n \in 1..NumTenants : sel = Selection(fs, n)
  /\ astat = [i \in DOMAIN sel |-> "sending"]
  /\ pipe = <<>>
  /\ permits = 0
  /\ \E ok \in BOOLEAN : disp = [pc |-> "select", finn_ok |-> ok]

\* the variables no step of SpecDisp changes
dispFrame == <<store, credVars, mainVars, waitVars, taskVars, restVars, sel>>

\* main: group the rows, make the semaphore, create one task per group
DISP_Select ==
  /\ disp.pc = "select"
  /\ LET groups == group_applications_by_user(sel) IN
       pipe' = [g \in DOMAIN groups |-> NewPipe(groups[g])]
  /\ permits' = MAX_CONCURRENT_USERS
  /\ disp' = [disp EXCEPT !.pc = "gather"]
  /\ UNCHANGED <<dispFrame, astat>>

\* process_user_applications: async with semaphore
PUA_Acquire(g) ==
  /\ pipe[g].pc = "created"
  /\ semaphore_free(permits)
  /\ permits' = permits - 1
  /\ pipe' = [pipe EXCEPT ![g].pc = "inside"]
  /\ UNCHANGED <<dispFrame, astat, disp>>

\* process_user_applications: classify_applications (a row whose Job read
\* fails counts as other), then the FINN rows are marked failed and dropped
\* when the FINN login is not configured (each write may fail and is
\* skipped); the FINN rows are processed first, then the others
PUA_Classify(g) ==
  /\ pipe[g].pc = "inside"
  /\ LET apps == pipe[g].apps
         Finn == {apps[k] : k \in {j \in DOMAIN apps : sel[apps[j]].flow = "finn"}}
     IN \E F \in SUBSET Finn :
          LET finn_apps == SelectSeq(apps, LAMBDA i : i \in F)
              other_apps == SelectSeq(apps, LAMBDA i : i \notin F)
          IN IF finn_apps # <<>> /\ ~disp.finn_ok
               THEN \E W \in SUBSET F :
                      /\ astat' = [i \in DOMAIN astat |->
                                     IF i \in W THEN "failed" ELSE astat[i]]
                      /\ pipe' = [pipe EXCEPT ![g].pc = "loop",
                                              ![g].todo = other_apps]
               ELSE /\ astat' = astat
                    /\ pipe' = [pipe EXCEPT ![g].pc = "loop",
                                            ![g].todo = finn_apps \o other_apps]
  /\ UNCHANGED <<dispFrame, permits, disp>>

\* the for loops: await process_application(app) for the next row
PUA_Next(g) ==
  /\ pipe[g].pc = "loop"
  /\ pipe[g].todo # <<>>
  /\ pipe' = [pipe EXCEPT ![g].pc = "in_pa",
                          ![g].cur = Head(pipe[g].todo),
                          ![g].todo = Tail(pipe[g].todo),
                          ![g].log = Append(@, Head(pipe[g].todo))]
  /\ UNCHANGED <<dispFrame, permits, astat, disp>>

\* process_application returned; it wrote the row's status itself
PA_Returned(g) ==
  /\ pipe[g].pc = "in_pa"
  /\ astat' = [astat EXCEPT ![pipe[g].cur] = "handled"]
  /\ pipe' = [pipe EXCEPT ![g].pc = "loop", ![g].cur = 0]
  /\ UNCHANGED <<dispFrame, permits, disp>>

\* process_application raised: the except marks the row failed with the
\* exception text; if that write raises too it is passed over
PA_Raised(g) ==
  /\ pipe[g].pc = "in_pa"
  /\ \E written \in BOOLEAN :
       /\ astat' = IF written THEN [astat EXCEPT ![pipe[g].cur] = "failed"] ELSE astat
       /\ pipe' = [pipe EXCEPT
                     ![g].pc = after_exception(g),
                     ![g].cur = 0,
                     ![g].errs = @ \cup {pipe[g].cur},
                     ![g].lost = IF written THEN @ ELSE @ \cup {pipe[g].cur}]
  /\ UNCHANGED <<dispFrame, permits, disp>>

\* process_user_applications leaves the semaphore and returns
PUA_Release(g) ==
  /\ \/ pipe[g].pc = "loop" /\ pipe[g].todo = <<>>
     \/ pipe[g].pc = "aborted"
  /\ permits' = permits + 1
  /\ pipe' = [pipe EXCEPT ![g].pc = "done"]
  /\ UNCHANGED <<dispFrame, astat, disp>>

\* main: gather returned; the cycle ends
DISP_Gathered ==
  /\ disp.pc = "gather"
  /\ \A g \in DOMAIN pipe : pipe[g].pc = "done"
  /\ disp' = [disp EXCEPT !.pc = "sleep"]
  /\ UNCHANGED <<dispFrame, pipe, permits, astat>>

\* another actor (the user, the bot) takes a selected row out of sending
\* while an earlier row of the same tenant is being processed
DISP_Withdrawn(i) ==
  /\ astat[i] = "sending"
  /\ \E g \in DOMAIN pipe :
       /\ pipe[g].pc = "in_pa"
       /\ \E k \in DOMAIN pipe[g].todo : pipe[g].todo[k] = i
  /\ astat' = [astat EXCEPT ![i] = "draft"]
  /\ UNCHANGED <<dispFrame, pipe, permits, disp>>

NextDisp ==
  \/ DISP_Select
  \/ \E i \in DOMAIN sel : DISP_Withdrawn(i)
  \/ \E g \in DOMAIN pipe : PUA_Acquire(g)
  \/ \E g \in DOMAIN pipe : PUA_Classify(g)
  \/ \E g \in DOMAIN pipe : PUA_Next(g)
  \/ \E g \in DOMAIN pipe : PA_Returned(g)
  \/ \E g \in DOMAIN pipe : PA_Raised(g)
  \/ \E g \in DOMAIN pipe : PUA_Release(g)
  \/ DISP_Gathered

SpecDisp == InitDisp /\ [][NextDisp]_vars

(***************************************************************************)
(* SpecReap: the main loop of the worker (cleanup_stuck_applications every *)
(* CLEANUP_EVERY_N_CYCLES cycles, select, gather, sleep) with one          *)
(* Application row, the pipeline that processes it or another tenant's     *)
(* row, and finn_apply_worker.py polling the same table                    *)
(***************************************************************************)

\* Bound of the reaper model: the clock stops after MaxTicks ticks
MaxTicks == 3

\* minutes per tick of the clock
TickMinutes == 15

STUCK_TIMEOUT_MINUTES == 30

CLEANUP_EVERY_N_CYCLES == 30

\* minutes the worker's local time is ahead of UTC (UTC, Europe/Oslo)
TzOffsets == {0, 60}

\* cutoff of cleanup_stuck_applications: datetime.now() is the local wall
\* time without a zone; its isoformat() is compared with the timestamptz
\* column updated_at, which reads a zoneless value as UTC
cutoff(t, tz) == (t + tz) - STUCK_TIMEOUT_MINUTES

\* a write of the status: updated_at follows the write
WriteStatus(st, why) ==
  rapp' = [status |-> st, updated_at |-> rnow, reason |-> why]

InitReap ==
  /\ store = {}
  /\ MainParked
  /\ WaitParked
  /\ TaskParked
  /\ DispParked
  /\ RegParked
  /\ RouteParked
  /\ AuxParked
  /\ sess = [a \in CredApps |-> [stage |-> "done", site |-> "acme.no"]]
  /\ lastOp = "init"
  /\ rnow = 0
  /\ rapp = [status |-> "sending", updated_at |-> 0, reason |-> "none"]
  /\ \E z \in TzOffsets, f \in {"off", "idle"} :
       reap = [pc |-> "cleanup", cycle |-> 0, tz |-> z, hit |-> FALSE,
               inflight |-> "none", fw |-> f]

\* the variables no step of SpecReap changes
reapFrame == <<store, credVars, mainVars, waitVars, taskVars, dispVars,
               regVars, routeVars, auxVars>>

\* time passes
RP_Tick ==
  /\ rnow < MaxTicks * TickMinutes
  /\ rnow' = rnow + TickMinutes
  /\ UNCHANGED <<reapFrame, rapp, reap>>

\* cleanup_stuck_applications: the select of the rows in sending with
\* updated_at < cutoff; an exception is logged and the cleanup ends
RP_CleanupSelect ==
  /\ reap.pc = "cleanup"
  /\ \/ LET found == rapp.status = "sending"
                       /\ rapp.updated_at < cutoff(rnow, reap.tz)
        IN reap' = [reap EXCEPT !.hit = found,
                                !.pc = IF found THEN "update" ELSE "select"]
     \/ reap' = [reap EXCEPT !.hit = FALSE, !.pc = "select"]
  /\ UNCHANGED <<reapFrame, rnow, rapp>>

\* cleanup_stuck_applications: the update of a row found, by id; if it
\* raises the cleanup ends
RP_CleanupUpdate ==
  /\ reap.pc = "update"
  /\ \/ WriteStatus("failed", "stuck_timeout")
     \/ UNCHANGED rapp
  /\ reap' = [reap EXCEPT !.pc = "select", !.hit = FALSE]
  /\ UNCHANGED <<reapFrame, rnow>>

\* main: the select of the rows in sending and the start of the pipelines;
\* the row is processed if it is in sending, and another tenant may have a
\* row too.  An exception ends the cycle
RP_MainSelect ==
  /\ reap.pc = "select"
  /\ \/ \E other \in BOOLEAN :
          reap' = [reap EXCEPT
                     !.pc = "gather",
                     !.inflight = IF rapp.status = "sending" THEN "a_wait"
                                  ELSE IF other THEN "b_wait" ELSE "none"]
     \/ reap' = [reap EXCEPT !.pc = "sleep"]
  /\ UNCHANGED <<reapFrame, rnow, rapp>>

\* process_application up to the task: the human wait ends (every wait has
\* a timeout).  Cancelled or timed out -> draft; else the task is submitted
\* and the row set to manual_review, or the submission fails
RP_WaitEnds ==
  /\ reap.inflight \in {"a_wait", "b_wait"}
  /\ IF reap.inflight = "a_wait"
       THEN \/ /\ WriteStatus("draft", "none")
               /\ reap' = [reap EXCEPT !.inflight = "none"]
            \/ /\ WriteStatus("failed", "skyvern_start_failed")
               /\ reap' = [reap EXCEPT !.inflight = "none"]
            \/ /\ WriteStatus("manual_review", "none")
               /\ reap' = [reap EXCEPT !.inflight = "a_monitor"]
       ELSE /\ \E nxt \in {"none", "b_monitor"} :
                 reap' = [reap EXCEPT !.inflight = nxt]
            /\ UNCHANGED rapp
  /\ UNCHANGED <<reapFrame, rnow>>

\* automation service: the task reaches a final status
RP_TaskFinish ==
  /\ reap.inflight \in {"a_monitor", "b_monitor"}
  /\ reap' = [reap EXCEPT !.inflight =
                IF reap.inflight = "a_monitor" THEN "a_finished" ELSE "b_finished"]
  /\ UNCHANGED <<reapFrame, rnow, rapp>>

\* monitor_task_status returns and process_application writes the result
RP_PipelineEnd ==
  /\ reap.inflight \in {"a_finished", "b_finished"}
  /\ IF reap.inflight = "a_finished"
       THEN \E st \in {"sent", "failed", "manual_review"} : WriteStatus(st, "none")
       ELSE UNCHANGED rapp
  /\ reap' = [reap EXCEPT !.inflight = "none"]
  /\ UNCHANGED <<reapFrame, rnow>>

\* a main loop that goes on without awaiting its pipelines
RP_Gathered_unawaited ==
  /\ reap.pc = "gather"
  /\ reap' = [reap EXCEPT !.pc = "sleep"]
  /\ UNCHANGED <<reapFrame, rnow, rapp>>

\* main: gather returned, heartbeat
RP_Gathered ==
  /\ reap.pc = "gather"
  /\ reap.inflight = "none"
  /\ reap' = [reap EXCEPT !.pc = "sleep"]
  /\ UNCHANGED <<reapFrame, rnow, rapp>>

\* main: sleep(POLL_INTERVAL), then poll_cycle += 1 and the cleanup when
\* poll_cycle % CLEANUP_EVERY_N_CYCLES == 0
RP_Sleep ==
  /\ reap.pc = "sleep"
  /\ LET c == (reap.cycle + 1) % CLEANUP_EVERY_N_CYCLES IN
       reap' = [reap EXCEPT !.cycle = c,
                            !.pc = IF c = 0 THEN "cleanup" ELSE "select"]
  /\ UNCHANGED <<reapFrame, rnow, rapp>>

\* finn_apply_worker.py, get_pending_finn_applications: the row is read in
\* status sending (fw is "off" when that worker does not run or the row is
\* not a FINN row)
FW_Select ==
  /\ reap.fw = "idle"
  /\ rapp.status = "sending"
  /\ reap' = [reap EXCEPT !.fw = "holding"]
  /\ UNCHANGED <<reapFrame, rnow, rapp>>

\* finn_apply_worker.py, process_application: after submit_finn_application
\* the status is written by id: sending with the task id when the task was
\* started (reason finn_task stands for that metadata), failed otherwise
FW_Write ==
  /\ reap.fw = "holding"
  /\ \/ WriteStatus("sending", "finn_task")
     \/ WriteStatus("failed", "finn_apply")
  /\ reap' = [reap EXCEPT !.fw = "idle"]
  /\ UNCHANGED <<reapFrame, rnow>>

\* upstream producer: the user approves the draft, status := sending
RP_Enqueue ==
  /\ rapp.status = "draft"
  /\ WriteStatus("sending", "none")
  /\ UNCHANGED <<reapFrame, rnow, reap>>

\* out-of-band cancellation: the user marks the queued Application approved
RP_UserCancel ==
  /\ rapp.status = "sending"
  /\ WriteStatus("approved", "none")
  /\ UNCHANGED <<reapFrame, rnow, reap>>

\* the steps of main and of the pipelines it awaits
ReapLoop ==
  \/ RP_CleanupSelect
  \/ RP_CleanupUpdate
  \/ RP_MainSelect
  \/ RP_WaitEnds
  \/ RP_PipelineEnd
  \/ RP_Gathered
  \/ RP_Sleep

\* the steps of finn_apply_worker.py
FinnWorker ==
  \/ FW_Select
  \/ FW_Write

NextReap ==
  \/ ReapLoop
  \/ FinnWorker
  \/ RP_Tick
  \/ RP_TaskFinish
  \/ RP_Enqueue
  \/ RP_UserCancel

SpecReap == InitReap /\ [][NextReap]_vars

\* the select of the cleanup finds the row
RP_CleanupFound == RP_CleanupSelect /\ reap'.hit

\* the update of the cleanup is taken by the store
RP_CleanupWritten == RP_CleanupUpdate /\ rapp'.status = "failed"

\* the worker processes keep running and the store does not refuse the
\* cleanup for ever; the clock, the automation service and the user owe
\* nothing
SpecReapFair ==
  /\ SpecReap
  /\ WF_vars(ReapLoop)
  /\ WF_vars(FinnWorker)
  /\ SF_vars(RP_CleanupFound)
  /\ SF_vars(RP_CleanupWritten)

(***************************************************************************)
(* SpecReg: registration_flows.  The Registration Manager                  *)
(* (register_site.py: process_pending_flows, process_registration) and the *)
(* paths of the orchestrator that start a flow for one Application of one  *)
(* domain (auto_apply.py: trigger_registration_flow, process_application)  *)
(***************************************************************************)

\* Bound of the registration model: rows of registration_flows
MaxRegFlows == 2

\* what the automation service reports for a registration task
RegResults == {"ok", "ok_email", "ok_sms", "missing_field", "failed"}

\* ask_verification_code: update_flow_status(flow_id,
\* f"{verification_type}_verification") with verification_type email_code or
\* sms_code
verification_status(res) ==
  IF res = "ok_email" THEN "email_code_verification" ELSE "sms_code_verification"

\* process_registration retries after any failure of the first task
can_retry_always(chatv, res) == chatv

\* process_registration: the retry is for result status missing_field with
\* a chat id and a field name
can_retry(chatv, res) == chatv /\ res = "missing_field"

\* the re-queue writes sending whatever the status is
requeue_any(st) == "sending"

\* update({"status": "sending"}).eq("id", app_id).eq("status", "manual_review")
requeue(st) == IF st = "manual_review" THEN "sending" ELSE st

InitReg ==
  /\ store = {}
  /\ MainParked
  /\ WaitParked
  /\ TaskParked
  /\ DispParked
  /\ ReapParked
  /\ RouteParked
  /\ AuxParked
  /\ sess = [a \in CredApps |-> [stage |-> "done", site |-> "acme.no"]]
  /\ lastOp = "init"
  /\ regFlows = <<>>
  /\ \E c \in BOOLEAN :
       regApp = [status |-> "sending", waiting |-> FALSE, flow |-> 0, chat |-> c]
  /\ regCred = FALSE
  /\ regRun = NoRun
  /\ regOrc = [pc |-> "idle", flow |-> 0]

\* the variables no step of SpecReg changes
regFrame == <<store, credVars, mainVars, waitVars, taskVars, dispVars,
              reapVars, routeVars, auxVars>>

\* update_flow_status(flow_id, status)
SetFlow(f, st) == regFlows' = [regFlows EXCEPT ![f].status = st]

\* process_registration returns
RunEnds == regRun' = NoRun

\* process_pending_flows starts process_registration for a pending flow;
\* with a chat id send_registration_confirmation sets waiting_confirmation
RM_Pick(f) ==
  /\ regRun.pc = "idle"
  /\ f \in DOMAIN regFlows
  /\ regFlows[f].status = "pending"
  /\ IF regApp.chat
       THEN /\ SetFlow(f, "waiting_confirmation")
            /\ regRun' = [NoRun EXCEPT !.pc = "wait_conf", !.flow = f]
       ELSE /\ regRun' = [NoRun EXCEPT !.pc = "start", !.flow = f]
            /\ UNCHANGED regFlows
  /\ UNCHANGED <<regFrame, regApp, regCred, regOrc>>

\* wait_for_registration_confirmation and what process_registration does
\* with its result: confirmed -> go on; cancelled -> cancelled; nothing
\* within REGISTRATION_CONFIRMATION_TIMEOUT -> failed
RM_ConfWait ==
  /\ regRun.pc = "wait_conf"
  /\ LET f == regRun.flow IN
       IF regFlows[f].status = "confirmed"
         THEN /\ regRun' = [regRun EXCEPT !.pc = "start"]
              /\ UNCHANGED regFlows
       ELSE IF regFlows[f].status = "cancelled"
         THEN /\ SetFlow(f, "cancelled")
              /\ RunEnds
       ELSE /\ SetFlow(f, "failed")
            /\ RunEnds
  /\ UNCHANGED <<regFrame, regApp, regCred, regOrc>>

\* process_registration: status registering, trigger_registration_task;
\* without a task id the flow fails
RM_Start ==
  /\ regRun.pc = "start"
  /\ \/ /\ SetFlow(regRun.flow, "registering")
        /\ regRun' = [regRun EXCEPT !.pc = "monitor", !.tasks = @ + 1]
     \/ /\ SetFlow(regRun.flow, "failed")
        /\ RunEnds
  /\ UNCHANGED <<regFrame, regApp, regCred, regOrc>>

\* monitor_registration_task returns for the first task
RM_Monitor ==
  /\ regRun.pc = "monitor"
  /\ regRun.res # "none"
  /\ LET f == regRun.flow
         r == regRun.res
     IN
       IF r = "ok"
         THEN /\ regRun' = [regRun EXCEPT !.pc = "save", !.first = r]
              /\ UNCHANGED regFlows
       ELSE IF r \in {"ok_email", "ok_sms"}
         THEN /\ SetFlow(f, verification_status(r))
              /\ regRun' = [regRun EXCEPT !.pc = "verify", !.first = r,
                                          !.verif = "asked"]
       ELSE IF can_retry(regApp.chat, r)
         THEN \/ /\ regRun' = [regRun EXCEPT !.pc = "retry", !.first = r,
                                             !.src = "kb"]
                 /\ UNCHANGED regFlows
              \/ /\ SetFlow(f, "waiting_answer")
                 /\ regRun' = [regRun EXCEPT !.pc = "field", !.first = r]
       ELSE /\ SetFlow(f, "failed")
            /\ RunEnds
  /\ UNCHANGED <<regFrame, regApp, regCred, regOrc>>

\* ask_verification_code returns: the code, or None after
\* VERIFICATION_TIMEOUT_SECONDS; process_registration goes on to save the
\* credentials in both cases
RM_Verify ==
  /\ regRun.pc = "verify"
  /\ regRun' = [regRun EXCEPT !.pc = "save",
                              !.verif = IF @ = "asked" THEN "timeout" ELSE @]
  /\ UNCHANGED <<regFrame, regFlows, regApp, regCred, regOrc>>

\* ask_user_for_field returns: the answer -> retry; None -> the flow fails
RM_Field ==
  /\ regRun.pc = "field"
  /\ IF regRun.src = "user"
       THEN /\ regRun' = [regRun EXCEPT !.pc = "retry"]
            /\ UNCHANGED regFlows
       ELSE /\ SetFlow(regRun.flow, "failed")
            /\ RunEnds
  /\ UNCHANGED <<regFrame, regApp, regCred, regOrc>>

\* process_registration: the retry with the updated data
RM_Retry ==
  /\ regRun.pc = "retry"
  /\ \/ /\ SetFlow(regRun.flow, "registering")
        /\ regRun' = [regRun EXCEPT !.pc = "monitor2", !.tasks = @ + 1,
                                    !.res = "none"]
     \/ /\ SetFlow(regRun.flow, "failed")
        /\ RunEnds
  /\ UNCHANGED <<regFrame, regApp, regCred, regOrc>>

\* monitor_registration_task returns for the second task
RM_Monitor2 ==
  /\ regRun.pc = "monitor2"
  /\ regRun.res # "none"
  /\ IF regRun.res \in {"ok", "ok_email", "ok_sms"}
       THEN /\ regRun' = [regRun EXCEPT !.pc = "save"]
            /\ UNCHANGED regFlows
       ELSE /\ SetFlow(regRun.flow, "failed")
            /\ RunEnds
  /\ UNCHANGED <<regFrame, regApp, regCred, regOrc>>

\* process_registration: save_site_credentials (an insert: it fails when
\* the domain has a row); with a credential id the flow is completed and
\* the linked Application re-queued, without one the flow fails
RM_Save ==
  /\ regRun.pc = "save"
  /\ IF ~ regCred
       THEN /\ regCred' = TRUE
            /\ SetFlow(regRun.flow, "completed")
            /\ regApp' = [regApp EXCEPT !.status = requeue(@)]
       ELSE /\ SetFlow(regRun.flow, "failed")
            /\ UNCHANGED <<regCred, regApp>>
  /\ RunEnds
  /\ UNCHANGED <<regFrame, regOrc>>

\* bot: the user confirms or cancels the registration
RB_Confirm(f, s) ==
  /\ f \in DOMAIN regFlows
  /\ regFlows[f].status = "waiting_confirmation"
  /\ SetFlow(f, s)
  /\ UNCHANGED <<regFrame, regApp, regCred, regRun, regOrc>>

\* bot: the user sends the verification code
RB_Code ==
  /\ regRun.pc = "verify"
  /\ regRun.verif = "asked"
  /\ regRun' = [regRun EXCEPT !.verif = "code"]
  /\ UNCHANGED <<regFrame, regFlows, regApp, regCred, regOrc>>

\* bot: the user answers the question about the missing field
RB_Answer ==
  /\ regRun.pc = "field"
  /\ regRun.src = "none"
  /\ regRun' = [regRun EXCEPT !.src = "user"]
  /\ UNCHANGED <<regFrame, regFlows, regApp, regCred, regOrc>>

\* automation service: the registration task ends or reports a field
RT_Result(r) ==
  /\ regRun.pc \in {"monitor", "monitor2"}
  /\ regRun.res = "none"
  /\ regRun' = [regRun EXCEPT !.res = r]
  /\ UNCHANGED <<regFrame, regFlows, regApp, regCred, regOrc>>

\* main selects the Application; process_application: the
\* waiting_for_registration guard
OR_Select ==
  /\ regOrc.pc = "idle"
  /\ regApp.status = "sending"
  /\ IF regApp.waiting /\ regApp.flow # 0
       THEN IF regFlows[regApp.flow].status \in ActiveFlowStatuses
              THEN /\ regApp' = [regApp EXCEPT !.status = "manual_review"]
                   /\ UNCHANGED regOrc
            ELSE IF regFlows[regApp.flow].status = "completed"
              THEN /\ regApp' = [regApp EXCEPT !.waiting = FALSE]
                   /\ regOrc' = [regOrc EXCEPT !.pc = "route"]
            ELSE /\ regApp' = [regApp EXCEPT !.status = "failed", !.waiting = FALSE]
                 /\ UNCHANGED regOrc
       ELSE /\ regOrc' = [regOrc EXCEPT !.pc = "route"]
            /\ UNCHANGED regApp
  /\ UNCHANGED <<regFrame, regFlows, regCred, regRun>>

\* process_application: with a login the form is filled.  Without one and
\* with a chat id, trigger_registration_flow looks for a flow of the
\* Application in progress and returns it (the caller returns), else it
\* starts one; without a chat id process_application starts one itself
OR_Route ==
  /\ regOrc.pc = "route"
  /\ regOrc' = [regOrc EXCEPT !.pc =
       IF regCred THEN "apply"
       ELSE IF regApp.chat
         THEN IF \E f \in DOMAIN regFlows : regFlows[f].status \in ActiveFlowStatuses
                THEN "idle"
                ELSE "trf_insert"
         ELSE "pa_insert"]
  /\ UNCHANGED <<regFrame, regFlows, regApp, regCred, regRun>>

\* trigger_registration: insert of the pending flow; None when it fails
\* (trigger_registration_flow then marks the Application failed)
OR_Insert ==
  /\ regOrc.pc \in {"trf_insert", "pa_insert"}
  /\ \/ /\ Len(regFlows) < MaxRegFlows
        /\ regFlows' = Append(regFlows, [status |-> "pending"])
        /\ regOrc' = [pc |-> IF regOrc.pc = "trf_insert" THEN "trf_notify"
                             ELSE "pa_update",
                      flow |-> Len(regFlows) + 1]
        /\ UNCHANGED regApp
     \/ /\ regApp' = IF regOrc.pc = "trf_insert"
                       THEN [regApp EXCEPT !.status = "failed"]
                       ELSE regApp
        /\ regOrc' = [regOrc EXCEPT !.pc = "apply"]
        /\ UNCHANGED regFlows
  /\ UNCHANGED <<regFrame, regCred, regRun>>

\* after the insert (and, in trigger_registration_flow, the message to the
\* user) the Application is set to manual_review with
\* waiting_for_registration; process_application then waits for the flow
OR_Update ==
  /\ regOrc.pc \in {"trf_notify", "pa_update"}
  /\ regApp' = [regApp EXCEPT !.status = "manual_review", !.waiting = TRUE,
                              !.flow = regOrc.flow]
  /\ regOrc' = IF regOrc.pc = "trf_notify"
                 THEN [pc |-> "idle", flow |-> 0]
                 ELSE [regOrc EXCEPT !.pc = "wrc"]
  /\ UNCHANGED <<regFrame, regFlows, regCred, regRun>>

\* wait_for_registration_completion: completed -> the form is filled;
\* failed, cancelled or max_wait_seconds over -> the Application fails
OR_Wait ==
  /\ regOrc.pc = "wrc"
  /\ IF regFlows[regOrc.flow].status = "completed"
       THEN /\ regOrc' = [regOrc EXCEPT !.pc = "apply"]
            /\ UNCHANGED regApp
       ELSE /\ regApp' = [regApp EXCEPT !.status = "failed", !.waiting = FALSE,
                                        !.flow = 0]
            /\ regOrc' = [pc |-> "idle", flow |-> 0]
  /\ UNCHANGED <<regFrame, regFlows, regCred, regRun>>

\* the form filling and its result
OR_Apply ==
  /\ regOrc.pc = "apply"
  /\ \E st \in {"manual_review", "sent", "failed"} :
       regApp' = [regApp EXCEPT !.status = st, !.waiting = FALSE, !.flow = 0]
  /\ regOrc' = [pc |-> "idle", flow |-> 0]
  /\ UNCHANGED <<regFrame, regFlows, regCred, regRun>>

\* the worker process stops while it awaits the message to the user or the
\* flow, and a new instance starts
OR_Restart ==
  /\ regOrc.pc \in {"trf_notify", "wrc"}
  /\ regOrc' = [pc |-> "idle", flow |-> 0]
  /\ UNCHANGED <<regFrame, regFlows, regApp, regCred, regRun>>

NextReg ==
  \/ \E f \in 1..MaxRegFlows : RM_Pick(f)
  \/ RM_ConfWait
  \/ RM_Start
  \/ RM_Monitor
  \/ RM_Verify
  \/ RM_Field
  \/ RM_Retry
  \/ RM_Monitor2
  \/ RM_Save
  \/ \E f \in 1..MaxRegFlows, s \in {"confirmed", "cancelled"} : RB_Confirm(f, s)
  \/ RB_Code
  \/ RB_Answer
  \/ \E r \in RegResults : RT_Result(r)
  \/ OR_Select
  \/ OR_Route
  \/ OR_Insert
  \/ OR_Update
  \/ OR_Wait
  \/ OR_Apply
  \/ OR_Restart

SpecReg == InitReg /\ [][NextReg]_vars

\* the user sends the Application again while it is in manual_review
RQ_Resend ==
  /\ regOrc.pc = "idle"
  /\ regApp.status = "manual_review"
  /\ regApp' = [regApp EXCEPT !.status = "sending"]
  /\ UNCHANGED <<regFrame, regFlows, regCred, regRun, regOrc>>

NextRegResend == NextReg \/ RQ_Resend

\* SpecReg with Applications that are sent again
SpecRegResend == InitReg /\ [][NextRegResend]_vars

(***************************************************************************)
(* SpecRoute: the flow process_application chooses for an Application      *)
(* (the FINN Enkel Søknad test and FlowRouter.route), as a function of the *)
(* form-type marker, the URLs, the credentials and the chat id             *)
(***************************************************************************)

\* application_form_type ("" when the Job has none)
FormTypes ==
  {"", "unknown", "finn_easy", "external_form", "external_registration", "email"}

\* URLs, as the sequence of host and path segments; <<>> is no URL
Urls ==
  {<<>>,
   <<"finn.no", "job", "apply">>,
   <<"finn.no", "job", "ad">>,
   <<"recman.no", "apply">>,
   <<"acme.no", "jobs">>}

\* 'finn.no' in url
has_finn(url) == \E i \in DOMAIN url : url[i] = "finn.no"

\* 'finn.no/job/apply' in url
has_finn_apply(url) ==
  \E i \in DOMAIN url :
    /\ i + 2 <= Len(url)
    /\ SubSeq(url, i, i + 2) = <<"finn.no", "job", "apply">>

\* detect_site_type(extract_domain(url)) for the hosts of Urls
detect_site_type(url) ==
  IF url[1] = "recman.no" THEN "recman"
  ELSE IF url[1] = "finn.no" THEN "finn"
  ELSE "generic"

\* process_application: is_finn_easy, Cases 1 to 3
is_finn_easy(a) ==
  LET marked == a.enkel \/ a.marker = "finn_easy"
      case1 == a.job_url # <<>> /\ has_finn(a.job_url) /\ marked
      case2 == ~ case1 /\ a.ext # <<>> /\ has_finn_apply(a.ext)
      case3 == ~ case1 /\ ~ case2 /\ marked /\ a.ext # <<>> /\ has_finn(a.ext)
  IN  case1 \/ case2 \/ case3

\* FlowRouter.route: the flow field of the result
route_flow(form_type, a) ==
  LET url == IF a.ext # <<>> THEN a.ext ELSE a.job_url IN
    IF form_type \in {"finn_easy", "external_form", "external_registration", "email"}
      THEN form_type
    ELSE IF url = <<>>
      THEN "unknown"
    ELSE IF detect_site_type(url) \in {"recman", "cvpartner", "hrmanager"}
      THEN "external_registration"
    ELSE IF a.creds
      THEN "external_form"
    ELSE "external_form"

\* process_application: FINN Enkel Søknad first; FlowRouter.route only with
\* a chat id (form_type or 'unknown'); without one the standard form path,
\* which registers only for external_registration
flow_of(a) ==
  IF a.job_url = <<>> /\ a.ext = <<>> THEN "none"
  ELSE IF is_finn_easy(a) THEN "finn_easy"
  ELSE IF a.chat
    THEN route_flow(IF a.marker = "" THEN "unknown" ELSE a.marker, a)
  ELSE IF a.marker = "external_registration" THEN "external_registration"
  ELSE "external_form"

InitRoute ==
  /\ store = {}
  /\ MainParked
  /\ WaitParked
  /\ TaskParked
  /\ DispParked
  /\ ReapParked
  /\ RegParked
  /\ AuxParked
  /\ sess = [a \in CredApps |-> [stage |-> "done", site |-> "acme.no"]]
  /\ lastOp = "init"
  /\ \E m \in FormTypes, e \in BOOLEAN, j \in Urls, x \in Urls,
        c \in BOOLEAN, t \in BOOLEAN :
       rt = [pc |-> "new", marker |-> m, enkel |-> e, job_url |-> j,
             ext |-> x, creds |-> c, chat |-> t, flow |-> "none"]

\* process_application chooses the flow
RT_Classify ==
  /\ rt.pc = "new"
  /\ rt' = [rt EXCEPT !.pc = "done", !.flow = flow_of(rt)]
  /\ UNCHANGED <<store, credVars, mainVars, waitVars, taskVars, dispVars,
                 reapVars, regVars, auxVars>>

NextRoute == RT_Classify

SpecRoute == InitRoute /\ [][NextRoute]_vars

(***************************************************************************)
(* SpecEdit: send_payload_preview: the preview request, the edits of the   *)
(* user, and the payload the task is submitted with                        *)
(***************************************************************************)

\* every variable outside prv, pwd, rpt and pnd, parked
BaseParked ==
  /\ store = {}
  /\ MainParked
  /\ WaitParked
  /\ TaskParked
  /\ DispParked
  /\ ReapParked
  /\ RegParked
  /\ RouteParked
  /\ sess = [a \in CredApps |-> [stage |-> "done", site |-> "acme.no"]]
  /\ lastOp = "init"

\* the variables no step of SpecEdit, SpecPass, SpecMask or SpecPend changes
baseFrame == <<store, credVars, mainVars, waitVars, taskVars, dispVars,
               reapVars, regVars, routeVars>>

\* two of the keys of EDITABLE_FIELDS
EditKeys == {"full_name", "phone"}

\* field values; "" is the empty string
EditValues == {"", "a", "b"}

\* the loop over EDITABLE_FIELDS: candidate_payload[key] = db_val if db_val
merge_fields(cand, db) ==
  [k \in EditKeys |-> IF db[k] # "" THEN db[k] ELSE cand[k]]

InitEdit ==
  /\ BaseParked
  /\ PassParked
  /\ MaskParked
  /\ PendParked
  /\ \E c \in [EditKeys -> EditValues] :
       prv = [pc |-> "poll", cand |-> c, db |-> c, seen |-> c,
              status |-> "pending", result |-> "none",
              sent |-> [k \in EditKeys |-> ""]]

\* the user sets a field of the pending preview to a value, or clears it
EB_Edit(k, v) ==
  /\ prv.status = "pending"
  /\ prv.db[k] # v
  /\ prv' = [prv EXCEPT !.db[k] = v]
  /\ UNCHANGED <<baseFrame, pwd, rpt, pnd>>

\* the user presses send or cancel
EB_Resolve(s) ==
  /\ prv.status = "pending"
  /\ prv' = [prv EXCEPT !.status = s]
  /\ UNCHANGED <<baseFrame, pwd, rpt, pnd>>

\* one turn of the polling loop
ED_Poll ==
  /\ prv.pc = "poll"
  /\ prv' =
       IF prv.status = "confirmed"
         THEN [prv EXCEPT !.cand = merge_fields(prv.cand, prv.db),
                          !.result = "confirmed", !.pc = "submit"]
       ELSE IF prv.status = "cancelled"
         THEN [prv EXCEPT !.result = "cancelled", !.pc = "done"]
       ELSE IF prv.db # prv.seen
         THEN [prv EXCEPT !.seen = prv.db,
                          !.cand = merge_fields(prv.cand, prv.db)]
       ELSE prv
  /\ UNCHANGED <<baseFrame, pwd, rpt, pnd>>

\* the loop ends: the request is set to timeout, the caller goes on
ED_Timeout ==
  /\ prv.pc = "poll"
  /\ prv' = [prv EXCEPT !.status = "timeout", !.result = "timeout",
                        !.pc = "submit"]
  /\ UNCHANGED <<baseFrame, pwd, rpt, pnd>>

\* trigger_skyvern_task_with_credentials submits the task
ED_Submit ==
  /\ prv.pc = "submit"
  /\ prv' = [prv EXCEPT !.sent = prv.cand, !.pc = "sent"]
  /\ UNCHANGED <<baseFrame, pwd, rpt, pnd>>

NextEdit ==
  \/ \E k \in EditKeys, v \in EditValues : EB_Edit(k, v)
  \/ \E s \in {"confirmed", "cancelled"} : EB_Resolve(s)
  \/ ED_Poll
  \/ ED_Timeout
  \/ ED_Submit

SpecEdit == InitEdit /\ [][NextEdit]_vars

(***************************************************************************)
(* SpecPass: the password generated for a new registration flow, by        *)
(* generate_secure_password (register_site.py) and by trigger_registration *)
(* (auto_apply.py).  A password is kept as the number of its characters in *)
(* each character class.                                                   *)
(***************************************************************************)

PASSWORD_LENGTH == 16

\* string.ascii_lowercase, string.ascii_uppercase, string.digits, "!@#$%^&*"
CharClasses == {"lower", "upper", "digit", "special"}

\* the functions that generate a password for a flow
PassPaths == {"generate_secure_password", "trigger_registration"}

pass_len(n) == n["lower"] + n["upper"] + n["digit"] + n["special"]

InitPass ==
  /\ BaseParked
  /\ EditParked
  /\ MaskParked
  /\ PendParked
  /\ \E p \in PassPaths :
       pwd = [pc |-> "start", path |-> p, n |-> [c \in CharClasses |-> 0]]

\* generate_secure_password: one character of each class first
PW_Required ==
  /\ pwd.pc = "start"
  /\ pwd.path = "generate_secure_password"
  /\ pwd' = [pwd EXCEPT !.pc = "fill", !.n = [c \in CharClasses |-> 1]]
  /\ UNCHANGED <<baseFrame, prv, rpt, pnd>>

\* trigger_registration: no required characters
PW_NoRequired ==
  /\ pwd.pc = "start"
  /\ pwd.path = "trigger_registration"
  /\ pwd' = [pwd EXCEPT !.pc = "fill"]
  /\ UNCHANGED <<baseFrame, prv, rpt, pnd>>

\* secrets.choice over all characters: a character of class c
PW_Choice(c) ==
  /\ pwd.pc = "fill"
  /\ pass_len(pwd.n) < PASSWORD_LENGTH
  /\ pwd' = [pwd EXCEPT !.n[c] = @ + 1]
  /\ UNCHANGED <<baseFrame, prv, rpt, pnd>>

\* shuffle (generate_secure_password only) and join
PW_Join ==
  /\ pwd.pc = "fill"
  /\ pass_len(pwd.n) = PASSWORD_LENGTH
  /\ pwd' = [pwd EXCEPT !.pc = "done"]
  /\ UNCHANGED <<baseFrame, prv, rpt, pnd>>

NextPass ==
  \/ PW_Required
  \/ PW_NoRequired
  \/ \E c \in CharClasses : PW_Choice(c)
  \/ PW_Join

SpecPass == InitPass /\ [][NextPass]_vars

(***************************************************************************)
(* SpecMask: the filled values the pollers collect from the steps of a     *)
(* task and forward in the progress dashboard and the step reports.  A     *)
(* value is a sequence of words; "pw" is the password of the task.         *)
(***************************************************************************)

\* steps with a fill action reported during one task
MaxSteps == 3

\* the text of a fill action
FilledValues == {<<"name">>, <<"pw">>, <<"pw", "x">>, <<"a", "b", "pw">>}

\* words shown of a long value (35 characters in monitor_task_status, 40 in
\* monitor_registration_task)
DisplayCut == 2

\* v in val, for the password
has_password(val) == \E i \in DOMAIN val : val[i] = "pw"

\* value[:35] + "..." if len(value) > 35 else value
truncated(val) ==
  IF Len(val) > DisplayCut THEN SubSeq(val, 1, DisplayCut) \o <<"...">> ELSE val

\* monitor_task_status: display_val
display_application(val) == truncated(val)

\* monitor_registration_task and format_step_report, mask_values=[password]
display_registration(val) ==
  IF has_password(val) THEN <<"********">> ELSE truncated(val)

InitMask ==
  /\ BaseParked
  /\ EditParked
  /\ PassParked
  /\ PendParked
  /\ \E p \in {"application", "registration"} :
       rpt = [pc |-> "polling", poller |-> p, fields |-> <<>>]

\* monitor_task_status: a new step with a fill action
AP_StepReport(val) ==
  /\ rpt.pc = "polling"
  /\ rpt.poller = "application"
  /\ Len(rpt.fields) < MaxSteps
  /\ rpt' = [rpt EXCEPT !.fields = Append(@, display_application(val))]
  /\ UNCHANGED <<baseFrame, prv, pwd, pnd>>

\* monitor_registration_task: a new step with a fill action
RG_StepReport(val) ==
  /\ rpt.pc = "polling"
  /\ rpt.poller = "registration"
  /\ Len(rpt.fields) < MaxSteps
  /\ rpt' = [rpt EXCEPT !.fields = Append(@, display_registration(val))]
  /\ UNCHANGED <<baseFrame, prv, pwd, pnd>>

\* the task reaches a final status
MS_TaskEnds ==
  /\ rpt.pc = "polling"
  /\ rpt' = [rpt EXCEPT !.pc = "done"]
  /\ UNCHANGED <<baseFrame, prv, pwd, pnd>>

NextMask ==
  \/ \E val \in FilledValues : AP_StepReport(val)
  \/ \E val \in FilledValues : RG_StepReport(val)
  \/ MS_TaskEnds

SpecMask == InitMask /\ [][NextMask]_vars

(***************************************************************************)
(* SpecPend: the registration worker's daemon loop.  main polls            *)
(* process_pending_flows every 10 seconds; the poll creates one            *)
(* process_registration task per flow it finds pending.  The worker is one *)
(* asyncio event loop and the store client is synchronous, so a created    *)
(* task runs from its start to its first real suspension (send_telegram on *)
(* the chat path, the Skyvern request otherwise) before the sleep of main  *)
(* returns.  update_flow_status logs a failed write and returns normally.  *)
(***************************************************************************)
NumPendFlows == 2

MaxRuns == 2

PendFlows == 1 .. NumPendFlows

RunSlots == 1 .. MaxRuns

FinalStatuses == {"cancelled", "failed", "completed"}

\* update_flow_status: the status the flow has after the call
update_flow_status(old, status, taken) == IF taken THEN status ELSE old

runs_started(fl) == Cardinality({i \in RunSlots : fl.runs[i] # "none"})

free_slot(fl) == CHOOSE i \in RunSlots :
                   /\ fl.runs[i] = "none"
                   /\ \A j \in RunSlots : fl.runs[j] = "none" => i <= j

InitPend ==
  /\ BaseParked
  /\ EditParked
  /\ PassParked
  /\ MaskParked
  /\ pnd \in [PendFlows -> [status : {"pending"}, chat : BOOLEAN,
                            runs : {[i \in RunSlots |-> "none"]}]]

\* process_pending_flows: a task for every flow selected as pending
process_pending_flows ==
  /\ pnd # <<>>
  /\ \A f \in PendFlows : \A i \in RunSlots : pnd[f].runs[i] # "created"
  /\ \E f \in PendFlows : pnd[f].status = "pending" /\ runs_started(pnd[f]) < MaxRuns
  /\ pnd' = [f \in PendFlows |->
               IF pnd[f].status = "pending" /\ runs_started(pnd[f]) < MaxRuns
               THEN [pnd[f] EXCEPT !.runs[free_slot(pnd[f])] = "created"]
               ELSE pnd[f]]
  /\ UNCHANGED <<baseFrame, prv, pwd, rpt>>

\* process_registration from its start to its first suspension
PR_Begin(f, i) ==
  /\ pnd # <<>>
  /\ pnd[f].runs[i] = "created"
  /\ \E found \in BOOLEAN, taken \in BOOLEAN :
       pnd' = [pnd EXCEPT ![f] =
                 IF ~ found
                 THEN [@ EXCEPT !.runs[i] = "done"]
                 ELSE IF @.chat
                 THEN [@ EXCEPT !.runs[i] = "sending",
                                !.status = update_flow_status(pnd[f].status, "waiting_confirmation", taken)]
                 ELSE [@ EXCEPT !.runs[i] = "working",
                                !.status = update_flow_status(pnd[f].status, "registering", taken)]]
  /\ UNCHANGED <<baseFrame, prv, pwd, rpt>>

\* send_registration_confirmation after send_telegram returned
PR_Sent(f, i) ==
  /\ pnd # <<>>
  /\ pnd[f].runs[i] = "sending"
  /\ \E msg_id \in BOOLEAN, taken \in BOOLEAN :
       pnd' = [pnd EXCEPT ![f] =
                 [@ EXCEPT !.runs[i] = "working",
                           !.status = IF msg_id
                                      THEN update_flow_status(pnd[f].status, "waiting_confirmation", taken)
                                      ELSE pnd[f].status]]
  /\ UNCHANGED <<baseFrame, prv, pwd, rpt>>

\* the rest of process_registration, up to its last status write
PR_End(f, i) ==
  /\ pnd # <<>>
  /\ pnd[f].runs[i] = "working"
  /\ \E st \in FinalStatuses, taken \in BOOLEAN :
       pnd' = [pnd EXCEPT ![f] =
                 [@ EXCEPT !.runs[i] = "done",
                           !.status = update_flow_status(pnd[f].status, st, taken)]]
  /\ UNCHANGED <<baseFrame, prv, pwd, rpt>>

NextPend ==
  \/ process_pending_flows
  \/ \E f \in PendFlows, i \in RunSlots : PR_Begin(f, i)
  \/ \E f \in PendFlows, i \in RunSlots : PR_Sent(f, i)
  \/ \E f \in PendFlows, i \in RunSlots : PR_End(f, i)

SpecPend == InitPend /\ [][NextPend]_vars

(***************************************************************************)
(* Properties                                                              *)
(***************************************************************************)

\* C2: in every reachable state at most one automation task started for the
\* Application is still live (not completed, failed, terminated or cancelled).
C2_AtMostOneLiveTask == Len(RowsIn(tasks, LiveTaskStatuses)) <= 1

\* the step that sends a form-filling / submission task to the service
SubmitsTask == pc \in {"finn_submit", "tswc_submit"} /\ pc' = "task_started"

\* C3: with a chat id configured, a submission task is sent only when a
\* confirmation created by this call is confirmed, and none created by this
\* call ended cancelled or timeout or went undelivered.
C3_ApprovalGate ==
  [][(chat /\ SubmitsTask) =>
       /\ \E i \in DOMAIN confs : i > loc.base /\ confs[i].status = "confirmed"
       /\ \A i \in DOMAIN confs :
            i > loc.base => confs[i].sent /\ confs[i].status \notin {"cancelled", "timeout"}
    ]_vars

\* the worker leaves a confirmation wait whose record is cancelled
LeavesWaitCancelled ==
  /\ crashes' = crashes
  /\ \/ pc = "wfc" /\ confs[loc.cid].status = "cancelled" /\ pc' # pc
     \/ pc = "pv_poll" /\ confs[loc.pvid].status = "cancelled" /\ pc' # pc

\* C4: when the worker leaves a wait whose confirmation the user cancelled,
\* process_application returns and the Application is draft (never failed).
C4_CancelRevertsToDraft ==
  [][LeavesWaitCancelled => pc' = "idle" /\ appStatus' = "draft"]_vars

\* a confirmation wait that gates submission ends in timeout
WaitEndsInTimeout ==
  \/ pc = "wfc_timeout" /\ pc' # pc
  \/ pc = "pv_poll" /\ pc' = "tswc_submit" /\ confs'[loc.pvid].status = "timeout"

\* C5: when a human wait that gates submission ends in timeout, the attempt
\* ends and the Application is draft.
C5_TimeoutRevertsToDraft ==
  [][WaitEndsInTimeout => pc' = "idle" /\ appStatus' = "draft"]_vars

\* C6: for an unresolved wait created at T with timeout S, a poll returns
\* timeout if and only if the poll's time is >= T + S (the persisted expiry).
C6_TimeoutBoundary ==
  (tw.kind # "none" /\ tw.status = "pending" /\ tw.result \in {"waiting", "timeout"})
    => (tw.result = "timeout" <=> tw.polledAt >= tw.expires)

\* the status changes a confirmation may make
AllowedConfChange(a, b) ==
  \/ a = b
  \/ a = "pending" /\ b \in {"confirmed", "cancelled", "timeout"}
  \/ a = "confirmed" /\ b = "submitted"

\* C7: a confirmation leaves pending only to confirmed, cancelled or timeout;
\* a confirmed or cancelled one is never overwritten, except confirmed to
\* submitted.  (The step that starts a new call only drops finished rows.)
C7_ConfirmationStateMachine ==
  [][\/ pc = "idle" /\ pc' = "pa_guard"
     \/ \A i \in DOMAIN confs :
          i \in DOMAIN confs' /\ AllowedConfChange(confs[i].status, confs'[i].status)
    ]_vars

\* C8: in every reachable state at most one confirmation of the Application
\* is pending.
C8_OnePendingConfirmation == Len(RowsIn(confs, {"pending"})) <= 1

\* C9: once the worker was restarted while it waited on a delivered, pending
\* confirmation, no step creates another confirmation for the Application.
C9_ResumeCreatesNoRequest ==
  [][held => Len(confs') <= Len(confs)]_vars

\* the positions inside a human interaction
HumanWaits == {"std_create", "hy_confirm", "wfc", "wfc_timeout", "pv_poll", "ask_poll"}

\* C10: without a chat id no confirmation and no question is ever created,
\* the worker is never inside a human wait, the confirmation step goes
\* straight on to the submission flow and the preview step straight to the
\* task submission.
C10_FailOpen ==
  /\ [](~chat => confs = <<>> /\ questions = <<>> /\ pc \notin HumanWaits)
  /\ [][~chat =>
          /\ (pc = "pa_confirm" /\ pc' # pc => pc' = "pa_flow")
          /\ (pc = "tswc_preview" /\ pc' # pc => pc' = "tswc_submit")
       ]_vars

\* C10 witness: no chat id, and a form-filling task was submitted with no
\* confirmation or question on record
C10_Witness ==
  /\ ~chat
  /\ pc = "task_started"
  /\ tasks[loc.tid].kind = "fill"
  /\ confs = <<>> /\ questions = <<>>

\* the monitor returned a classification of the response in polled
Classified == mon.pc = "returned" /\ mon.ret # "cancelled"

\* C11 as stated: every polled result that carries REACH_MAX_STEPS, with any
\* subset of the custom codes, is classified manual_review.
C11_StepBudgetAlwaysManual ==
  (Classified /\ "REACH_MAX_STEPS" \in polled.codes) => mon.ret = "manual_review"

\* C11: a failed or terminated result that carries REACH_MAX_STEPS and whose
\* extraction does not flag a magic-link page is classified manual_review,
\* whatever custom codes and failure text come with it.
C11_StepBudgetManualUnlessFlagged ==
  (Classified /\ "REACH_MAX_STEPS" \in polled.codes /\ ~polled.magic)
    => mon.ret = "manual_review"

\* C11 witness: REACH_MAX_STEPS together with magic_link and position_closed,
\* no extraction flag, classified manual_review
C11_Witness ==
  /\ Classified
  /\ {"REACH_MAX_STEPS", "magic_link", "position_closed"} \subseteq polled.codes
  /\ ~polled.magic
  /\ mon.ret = "manual_review"

\* C12: a completed task (no magic-link flag) is classified sent only when
\* the extraction says the submission occurred, and manual_review when the
\* extraction says it did not, in the form-filling flow and the FINN flow.
C12_CompletedClassification ==
  (Classified /\ polled.status = "completed" /\ ~polled.magic) =>
     /\ (mon.ret = "sent" => polled.said = "true")
     /\ (polled.said = "false" => mon.ret = "manual_review")

\* the status the specification gives for each custom code
StatusOfCode(c) ==
  IF c = "magic_link" THEN "magic_link"
  ELSE IF c \in {"position_closed", "login_failed", "2fa_timeout"} THEN "failed"
  ELSE "manual_review"

\* a keyword of the free-text fallback matches
KeywordMatches(reason) == is_magic_link(reason) \/ Contains(reason, "manual")

C14_OutOfBandCancel ==
  /\ [][mon'.pc = "poll" /\ mon.pc # "poll" => mon.pc = "check"]_vars
  /\ [][(mon.pc = "check" /\ mon'.pc # "check" /\ mon'.read = "ok"
           /\ tapp.status = "approved")
          => /\ mon'.pc = "returned" /\ mon'.ret = "cancelled"
             /\ mon'.cancels = mon.cancels + 1
             /\ polled' = polled]_vars
  /\ [][mon.ret = "cancelled" => tapp' = tapp]_vars
  /\ [](mon.cancels <= 1)

\* C14 witness: the user cancelled, the poller returned cancelled after one
\* cancel request and process_application ended with the status untouched
C14_Witness ==
  /\ mon.pc = "end"
  /\ mon.ret = "cancelled"
  /\ mon.cancels = 1
  /\ tapp.status = "approved"

\* C15: at most RETRY_ATTEMPTS posts; the sleeps are 5 then 10, one between
\* two posts and none after the last; only the last post can be a success;
\* the probe runs once, before the first post, and whatever it says the
\* first post is made.
C15_RetryBound ==
  /\ [](/\ Len(sub.posts) <= RETRY_ATTEMPTS
        /\ \A i \in DOMAIN sub.slept : sub.slept[i] = RETRY_BACKOFF[i]
        /\ Len(sub.slept) <= Len(sub.posts)
        /\ sub.pc \in {"return", "done"} => Len(sub.slept) = Len(sub.posts) - 1
        /\ \A i \in DOMAIN sub.posts : sub.posts[i] = "ok" => i = Len(sub.posts))
  /\ [][sub'.healthy # sub.healthy /\ sub'.pc # "off" => sub.posts = <<>>]_vars
  /\ [][sub.pc = "probe" /\ sub' # sub => sub'.pc = "post"]_vars
  /\ [][sub.pc = "post" /\ sub' # sub => Len(sub'.posts) = Len(sub.posts) + 1]_vars

\* C15 witness: the probe said unhealthy, three posts were made and failed,
\* with sleeps of 5 and 10 between them
C15_Witness ==
  /\ sub.pc = "done"
  /\ sub.healthy = "no"
  /\ Len(sub.posts) = 3
  /\ sub.slept = <<5, 10>>
  /\ sub.ret = "null"

\* C16: when all attempts failed the Application ends failed with
\* skyvern_start_failed; an Application with that diagnostic was never
\* polled; and the diagnostic is on record only after RETRY_ATTEMPTS posts
\* that all failed.
C16_StartFailure ==
  /\ (mon.pc = "end" /\ sub.pc = "done" /\ sub.ret = "null")
       => tapp = [status |-> "failed", reason |-> "skyvern_start_failed"]
  /\ tapp.reason = "skyvern_start_failed"
       => /\ polled = NoResult /\ mon.read = "none" /\ mon.cancels = 0
          /\ Len(sub.posts) = RETRY_ATTEMPTS
          /\ \A i \in DOMAIN sub.posts : sub.posts[i] # "ok"

\* the groups whose pipeline is inside the semaphore
InsidePipes == {g \in DOMAIN pipe : pipe[g].pc \in InsidePcs}

\* C17: at every moment at most MAX_CONCURRENT_USERS tenant pipelines are
\* inside their processing section.
C17_ConcurrencyBound == Cardinality(InsidePipes) <= MAX_CONCURRENT_USERS

\* C17 witness: the ceiling is reached while another tenant's pipeline waits
C17_Witness ==
  /\ Cardinality(InsidePipes) = MAX_CONCURRENT_USERS
  /\ \E g \in DOMAIN pipe : pipe[g].pc = "created"

\* the rows of tenant u that are inside process_application
InProcessing(u) ==
  {pipe[g].cur : g \in {h \in DOMAIN pipe : pipe[h].cur # 0}}
    \cap {i \in DOMAIN sel : sel[i].tenant = u}

\* C18: at most one row of a tenant is inside process_application at a time,
\* and a pipeline starts its next row only when it has none in progress.
C18_TenantSequential ==
  /\ [](\A i \in DOMAIN sel : Cardinality(InProcessing(sel[i].tenant)) <= 1)
  /\ [][\A g \in DOMAIN pipe :
          (g \in DOMAIN pipe' /\ pipe'[g].cur # 0 /\ pipe'[g].cur # pipe[g].cur)
            => pipe[g].cur = 0]_vars

\* C18 witness: the second row of tenant 1 is in progress after the first
\* one raised
C18_Witness ==
  \E g \in DOMAIN pipe :
    /\ pipe[g].pc = "in_pa"
    /\ Len(pipe[g].log) = 2
    /\ pipe[g].errs = {pipe[g].log[1]}

\* C19: every pipeline starts the rows of its tenant in selection order.
C19_SelectionOrder ==
  \A g \in DOMAIN pipe :
    \A i, j \in DOMAIN pipe[g].log : i < j => pipe[g].log[i] < pipe[g].log[j]

\* an exception ends neither the group nor the cycle: no pipeline aborts,
\* and a pipeline that returned has started every row it queued (the FINN
\* rows dropped for the missing login are never queued)
GroupSurvives ==
  \A g \in DOMAIN pipe :
    /\ pipe[g].pc # "aborted"
    /\ pipe[g].pc = "done" => pipe[g].todo = <<>>

Stale ==
  /\ rapp.status = "sending"
  /\ rnow - rapp.updated_at > STUCK_TIMEOUT_MINUTES

\* C21: the reaper writes an Application only when it is in sending and has
\* been unchanged for more than 30 minutes at that moment, and then it
\* writes failed with failure_reason stuck_timeout.
C21_ReaperExact ==
  [][(reap.pc = "update" /\ rapp' # rapp)
       => /\ Stale
          /\ rapp'.status = "failed"
          /\ rapp'.reason = "stuck_timeout"]_vars

\* C22: no Application stays in sending and unchanged past the threshold
\* for ever, whatever the pipelines in flight are doing: the reaper comes
\* round and fails it.
C22_ReaperEventually == []<>(~ Stale)

\* the statuses of an Application
AppStatuses ==
  {"draft", "sending", "manual_review", "sent", "failed", "cancelled", "approved"}

\* a step in which one of the worker processes writes the row
ProgramWrite == rapp' # rapp /\ reap' # reap

\* C23: every status a worker process writes is one of the seven statuses,
\* and no such write turns sent, failed or cancelled into sending.
C23_StatusWrites ==
  [][ProgramWrite
       => /\ rapp'.status \in AppStatuses
          /\ ~ (rapp.status \in {"sent", "failed", "cancelled"}
                  /\ rapp'.status = "sending")]_vars

\* the domain's credential is marked magic-link: it has rows and each of
\* them carries the mark
MagicLinkDomain ==
  /\ \E r \in store : r.site = Site
  /\ \A r \in store : r.site = Site => r.magic

\* C24: while the domain is marked magic-link no automation task is
\* submitted for an Application of that domain, the form-extraction task
\* of the hybrid flow included.
C24_MagicLinkNoTask ==
  [][MagicLinkDomain => Len(tasks') <= Len(tasks)]_vars

\* the statuses of a RegistrationFlow
FlowStatuses ==
  {"pending", "registering", "waiting_for_user", "email_verification",
   "sms_verification", "completed", "failed", "cancelled"}

\* the final statuses of a RegistrationFlow
FinalFlowStatuses == {"completed", "failed", "cancelled"}

\* the flows of the Application that have not reached a final status
OpenFlows == {f \in DOMAIN regFlows : regFlows[f].status \notin FinalFlowStatuses}

\* C25: the (domain, Application) pair never has two RegistrationFlows in a
\* non-final status: a path that starts a flow finds the one in progress.
C25_OneActiveFlow == Cardinality(OpenFlows) <= 1

\* C26: when the wait for the verification code expired without a code,
\* the run goes on to fail the flow: it persists no SiteCredential and does
\* not touch the linked Application.
C26_VerificationTimeoutFails ==
  [][(regRun.verif = "timeout" /\ regRun' # regRun)
       => /\ regFlows'[regRun.flow].status = "failed"
          /\ regCred' = regCred
          /\ regApp' = regApp]_vars

FlowWrite == regFlows' # regFlows /\ (regRun' # regRun \/ regOrc' # regOrc)

\* C29: every status the Registration Manager or the orchestrator writes
\* to a RegistrationFlow is one of the eight statuses.
C29_FlowStatusWrites ==
  [][FlowWrite
       => \A f \in DOMAIN regFlows' : regFlows'[f].status \in FlowStatuses]_vars

\* the Application carries no signal: no marker, no FINN or registration
\* platform URL, no credentials; it has a URL
NoSignal ==
  /\ rt.marker \in {"", "unknown"}
  /\ ~ rt.enkel
  /\ ~ rt.creds
  /\ rt.job_url # <<>> \/ rt.ext # <<>>
  /\ \A u \in {rt.job_url, rt.ext} :
       u # <<>> => ~ has_finn(u) /\ detect_site_type(u) = "generic"

\* C30: the explicit marker goes before the URL: an Application marked
\* email, external_form or external_registration is not handled as
\* finn_easy, whatever its URLs; with no signal the flow is external_form.
C30_MarkerBeforeUrl ==
  rt.pc = "done"
    => /\ rt.marker \in {"email", "external_form", "external_registration"}
            => rt.flow # "finn_easy"
       /\ NoSignal => rt.flow = "external_form"

\* C31: when the preview is confirmed, the task is submitted with the
\* persisted value of every editable field, a cleared one included.
C31_EditsMerged ==
  prv.pc = "sent" /\ prv.result = "confirmed"
    => \A k \in EditKeys : prv.sent[k] = prv.db[k]

\* C32: every password generated for a new registration flow has at least
\* 16 characters and at least one lowercase letter, one uppercase letter,
\* one digit and one symbol.
C32_PasswordStrength ==
  pwd.pc = "done"
    => /\ pass_len(pwd.n) >= 16
       /\ \A c \in CharClasses : pwd.n[c] >= 1

\* C33: no filled value forwarded by a poller, the application poller or
\* the registration poller, shows the password.
C33_MaskedReports ==
  \A i \in DOMAIN rpt.fields : ~ has_password(rpt.fields[i])

\* the time by which the wait has to have returned: its timeout, counted
\* from the persisted creation for wait_for_confirmation and from the start
\* of the loop for the others, and one poll with its overrun
WaitDeadline ==
  (IF tw.kind = "confirmation" THEN tw.expires
   ELSE tw.begun + TimeoutOf(tw.kind)) + POLL_INTERVAL + MaxJitter

\* C34: every human wait has returned one poll interval after its timeout
\* has elapsed, whatever status the inbound handler wrote to the record.
C34_WaitsTerminate ==
  tw.result = "waiting" => now <= WaitDeadline

\* C35: the main loop stays in gather while a pipeline of the cycle is
\* active, and a selection is made only when none is: no Application is
\* inside two process_application calls of one dispatcher.
C35_SelectAfterReturn ==
  /\ [](reap.inflight # "none" => reap.pc = "gather")
  /\ [][(reap.pc = "select" /\ reap'.pc = "gather") => reap.inflight = "none"]_vars

\* C35 witness: the Application is selected again in a later cycle, after
\* its first pipeline returned
C35_Witness ==
  /\ reap.fw = "off"
  /\ reap.cycle >= 1
  /\ reap.pc = "gather"
  /\ reap.inflight = "a_wait"
  /\ rapp.updated_at > 0

\* a pipeline calls process_application for row i
StartsRow(g, i) ==
  /\ g \in DOMAIN pipe /\ g \in DOMAIN pipe'
  /\ pipe'[g].cur = i
  /\ pipe[g].cur # i

\* C36: process_application is started only for a row whose status is
\* still sending at its turn; a row taken out of sending after the
\* selection is skipped.
C36_StillSending ==
  [][\A g \in DOMAIN pipe : \A i \in DOMAIN sel :
       StartsRow(g, i) => astat[i] = "sending"]_vars

\* C37: the reaper sets failed only on an Application that is in sending at
\* the moment of the write; one that another actor moved out of sending
\* after the reaper's read keeps its status.
C37_ReaperWriteGuarded ==
  [][(reap.pc = "update" /\ reap' # reap /\ rapp' # rapp)
       => rapp.status = "sending"]_vars

\* the non-final statuses the Registration Manager writes to a flow
ManagerOpenStatuses ==
  {"waiting_confirmation", "registering", "waiting_answer",
   "email_code_verification", "sms_code_verification"}

\* process_application takes up the Application again while its flow is
\* in progress
Reprocessed ==
  /\ regOrc.pc = "idle"
  /\ regApp.status = "sending"
  /\ regApp.waiting
  /\ regApp.flow \in DOMAIN regFlows
  /\ regFlows[regApp.flow].status \in ManagerOpenStatuses
  /\ regApp' # regApp \/ regOrc' # regOrc

\* C38: while the flow linked to an Application is in a non-final status
\* the Registration Manager wrote, processing the Application again does
\* not mark it failed and does not go on to start a registration.
C38_FlowInProgressRespected ==
  [][Reprocessed => regApp'.status # "failed" /\ regOrc'.pc = "idle"]_vars

\* finn_apply_worker starts a task for the Application
FinnTaskStarted ==
  /\ reap.fw = "holding"
  /\ reap'.fw = "idle"
  /\ rapp'.status = "sending"
  /\ rapp'.reason = "finn_task"

\* C40: finn_apply_worker starts a task only for an Application for which
\* it has not started one already: an Application with a task is not
\* returned again by get_pending_finn_applications.
C40_FinnSubmitsOnce ==
  [][FinnTaskStarted => rapp.reason # "finn_task"]_vars

\* C39: across any number of polls of process_pending_flows, at most one
\* process_registration run is started for a given registration flow.
C39_StartedOnce ==
  pnd # <<>> => \A f \in PendFlows : runs_started(pnd[f]) <= 1

====
